---- MODULE Spec2Model ----
(***************************************************************************)
(* A model of the causal intervention search engine of active-plan:       *)
(* StateManager (state_manager.py), InterventionApplier                    *)
(* (interventions.py), RewardShaper (reward_shaper.py) and CausalMCTS      *)
(* (mcts.py).                                                              *)
(*                                                                         *)
(* Representation.                                                         *)
(*  - A Python str is a sequence of one-character strings, so that split, *)
(*    strip, startswith, slicing and the substring test `d in action` are  *)
(*    computed, not assumed.                                               *)
(*  - A length (metres, Python float) is an integer number of             *)
(*    millimetres; a reward (Python float) is an integer number of         *)
(*    eightieths (0.05 = 4, 0.0625 = 5, 0.25 = 20, 1.0 = 80).  Averages    *)
(*    are compared by cross-multiplication.  The model computes in exact   *)
(*    arithmetic what the code computes in floating point: the scenarios   *)
(*    use rewards that are binary fractions, whose float sums are exact,   *)
(*    and positions whose distance from a threshold is a millimetre or     *)
(*    more.  The one scenario with a penalty of 0.05 is explored for the   *)
(*    budgets in which the float sums still equal the exact ones.          *)
(*  - The tree is an arena: `nodes` is the sequence of MCTSNode objects in *)
(*    creation order, a node is named by its index, the root is node 1 and *)
(*    parent = 0 stands for None.                                          *)
(***************************************************************************)
EXTENDS Integers, Sequences, FiniteSets, TLC

(***************************************************************************)
(* Python str helpers                                                      *)
(***************************************************************************)

\* s.startswith(p)
StartsWith(s, p) == Len(s) >= Len(p) /\ SubSeq(s, 1, Len(p)) = p

\* sub in s   (substring test)
Contains(s, sub) ==
    \E k \in 1..(Len(s) + 1) :
        k + Len(sub) - 1 <= Len(s) /\ SubSeq(s, k, k + Len(sub) - 1) = sub

\* s.strip(): the scenarios' only white space is the blank
RECURSIVE LStrip(_)
LStrip(s) == IF s # <<>> /\ Head(s) = " " THEN LStrip(Tail(s)) ELSE s

RECURSIVE RStrip(_)
RStrip(s) ==
    IF s # <<>> /\ s[Len(s)] = " " THEN RStrip(SubSeq(s, 1, Len(s) - 1)) ELSE s

Strip(s) == RStrip(LStrip(s))

\* s.split(','): the fields between the commas, at least one field
RECURSIVE SplitFrom(_, _, _)
SplitFrom(s, k, field) ==
    IF k > Len(s) THEN <<field>>
    ELSE IF s[k] = "," THEN <<field>> \o SplitFrom(s, k + 1, <<>>)
    ELSE SplitFrom(s, k + 1, Append(field, s[k]))

Split(s) == SplitFrom(s, 1, <<>>)

Digits == {"0", "1", "2", "3", "4", "5", "6", "7", "8", "9"}

DigitVal(c) ==
    CASE c = "0" -> 0 [] c = "1" -> 1 [] c = "2" -> 2 [] c = "3" -> 3
      [] c = "4" -> 4 [] c = "5" -> 5 [] c = "6" -> 6 [] c = "7" -> 7
      [] c = "8" -> 8 [] c = "9" -> 9

AllDigits(s) == \A k \in 1..Len(s) : s[k] \in Digits

\* the value of a digit string, most significant digit first
RECURSIVE DigitsVal(_)
DigitsVal(s) ==
    IF s = <<>> THEN 0
    ELSE 10 * DigitsVal(SubSeq(s, 1, Len(s) - 1)) + DigitVal(s[Len(s)])

\* the fraction digits as thousandths: "01" -> 10, "005" -> 5, "5" -> 500
Millis(frac) ==
    CASE Len(frac) = 0 -> 0
      [] Len(frac) = 1 -> 100 * DigitsVal(frac)
      [] Len(frac) = 2 -> 10 * DigitsVal(frac)
      [] OTHER -> DigitsVal(SubSeq(frac, 1, 3))

\* float(s) of an unsigned decimal literal "ddd", "ddd.ddd", ".ddd", "ddd.":
\* ok = FALSE is ValueError.  The value is in thousandths.
ParseDecimal(int, frac, ndots) ==
    IF ndots <= 1 /\ AllDigits(int) /\ AllDigits(frac)
       /\ Len(int) + Len(frac) >= 1
    THEN [ok |-> TRUE, val |-> 1000 * DigitsVal(int) + Millis(frac)]
    ELSE [ok |-> FALSE, val |-> 0]

ParseAtDot(s, dot, ndots) ==
    ParseDecimal(SubSeq(s, 1, dot - 1), SubSeq(s, dot + 1, Len(s)), ndots)

ParseWithDots(s, dots) ==
    ParseAtDot(s, IF dots = {} THEN Len(s) + 1 ELSE CHOOSE k \in dots : TRUE,
               Cardinality(dots))

ParseUnsigned(s) == ParseWithDots(s, {k \in 1..Len(s) : s[k] = "."})

Negated(u) == [ok |-> u.ok, val |-> 0 - u.val]

\* float(s): optional sign, then an unsigned decimal literal
ParseFloat(s) ==
    IF s # <<>> /\ Head(s) = "-" THEN Negated(ParseUnsigned(Tail(s)))
    ELSE IF s # <<>> /\ Head(s) = "+" THEN ParseUnsigned(Tail(s))
    ELSE ParseUnsigned(s)

(***************************************************************************)
(* String literals of the source                                           *)
(***************************************************************************)

sLeft    == <<"l", "e", "f", "t">>
sRight   == <<"r", "i", "g", "h", "t">>
sForward == <<"f", "o", "r", "w", "a", "r", "d">>
sBack    == <<"b", "a", "c", "k">>
sPick    == <<"p", "i", "c", "k">>
sPlace   == <<"p", "l", "a", "c", "e">>
sSwap    == <<"S", "w", "a", "p">>
sOnOpen  == <<"O", "n", "(">>
sComma   == <<",">>

\* ['left', 'right', 'forward', 'back']
DirectionTokens == {sLeft, sRight, sForward, sBack}

(***************************************************************************)
(* StateManager (state_manager.py).  A StateManager object is a record;    *)
(* a method that mutates it returns the new record.                        *)
(***************************************************************************)

\* a StateManager that ignores its argument and takes the documented default
\* threshold of 0.05 m
StateManager_default_threshold(initial_state, alignment_threshold) ==
    [objects             |-> initial_state.objects,
     initial_objects     |-> initial_state.objects,
     relationships       |-> initial_state.relationships,
     alignment_threshold |-> 50,
     intervened_objects  |-> {},
     objects_copied      |-> TRUE]

\* a StateManager that keeps the dict of initial_state as its objects
\* (self.objects = initial_state.get('objects', {}))
StateManager_without_copy(initial_state, alignment_threshold) ==
    [objects             |-> initial_state.objects,
     initial_objects     |-> initial_state.objects,
     relationships       |-> initial_state.relationships,
     alignment_threshold |-> alignment_threshold,
     intervened_objects  |-> {},
     objects_copied      |-> FALSE]

\* StateManager.__init__: deep copies of the objects, the declared set.
\* objects_copied tells that self.objects is a dict of its own, and not the
\* dict that initial_state holds.
StateManager(initial_state, alignment_threshold) ==
    [objects             |-> initial_state.objects,
     initial_objects     |-> initial_state.objects,
     relationships       |-> initial_state.relationships,
     alignment_threshold |-> alignment_threshold,
     intervened_objects  |-> {},
     objects_copied      |-> TRUE]

\* what the dict state0 holds once the state manager sm, built from it, has
\* run: its own objects, unless sm works on that very dict
initial_state_after(state0, sm) ==
    IF sm.objects_copied THEN state0
    ELSE [state0 EXCEPT !.objects = sm.objects]

Abs(x) == IF x < 0 THEN 0 - x ELSE x

\* a direction_vectors dict with the signs of forward and back exchanged
direction_vectors_y_reversed(direction, magnitude) ==
    CASE direction = sLeft    -> <<0 - magnitude, 0, 0>>
      [] direction = sRight   -> <<magnitude, 0, 0>>
      [] direction = sForward -> <<0, 0 - magnitude, 0>>
      [] direction = sBack    -> <<0, magnitude, 0>>

\* the direction_vectors dict of apply_shift
direction_vectors(direction, magnitude) ==
    CASE direction = sLeft    -> <<0 - magnitude, 0, 0>>
      [] direction = sRight   -> <<magnitude, 0, 0>>
      [] direction = sForward -> <<0, magnitude, 0>>
      [] direction = sBack    -> <<0, 0 - magnitude, 0>>

\* the new position of apply_shift: current_pos + (dx, dy, dz)
Shifted(current_pos, d) ==
    <<current_pos[1] + d[1], current_pos[2] + d[2], current_pos[3] + d[3]>>

\* an apply_shift that marks obj as intervened before its two tests
apply_shift_marking_first(sm, obj, direction, magnitude) ==
    IF obj \notin DOMAIN sm.objects \/ direction \notin DirectionTokens
    THEN [ok |-> FALSE,
          sm |-> [sm EXCEPT !.intervened_objects = @ \cup {obj}]]
    ELSE [ok |-> TRUE,
          sm |-> [sm EXCEPT
                     !.objects = [@ EXCEPT ![obj] =
                         Shifted(@, direction_vectors(direction, magnitude))],
                     !.intervened_objects = @ \cup {obj}]]

\* StateManager.apply_shift: [ok, sm]
apply_shift(sm, obj, direction, magnitude) ==
    IF obj \notin DOMAIN sm.objects THEN [ok |-> FALSE, sm |-> sm]
    ELSE IF direction \notin DirectionTokens THEN [ok |-> FALSE, sm |-> sm]
    ELSE [ok |-> TRUE,
          sm |-> [sm EXCEPT
                     !.objects = [@ EXCEPT ![obj] =
                         Shifted(@, direction_vectors(direction, magnitude))],
                     !.intervened_objects = @ \cup {obj}]]

\* a threshold test that takes a difference equal to the threshold (<=)
Aligned_inclusive(pos_a, pos_b, threshold) ==
    Abs(pos_a[1] - pos_b[1]) <= threshold
        /\ Abs(pos_a[2] - pos_b[2]) <= threshold

\* the threshold test of check_alignment on two positions
Aligned(pos_a, pos_b, threshold) ==
    Abs(pos_a[1] - pos_b[1]) < threshold /\ Abs(pos_a[2] - pos_b[2]) < threshold

\* StateManager.check_alignment
check_alignment(sm, obj_a, obj_b) ==
    IF obj_a \notin DOMAIN sm.objects \/ obj_b \notin DOMAIN sm.objects
    THEN FALSE
    ELSE Aligned(sm.objects[obj_a], sm.objects[obj_b], sm.alignment_threshold)

\* StateManager.check_misalignment
check_misalignment(sm, obj, reference) == ~check_alignment(sm, obj, reference)

\* the end of _check_relationship_holds, for the stripped obj_a and obj_b
HoldsBetween(sm, obj_a, obj_b) ==
    IF obj_a \notin DOMAIN sm.objects \/ obj_b \notin DOMAIN sm.objects
    THEN TRUE
    ELSE check_alignment(sm, obj_a, obj_b)

\* _check_relationship_holds after parts = relationship[3:-1].split(',')
HoldsParts(sm, parts) ==
    IF Len(parts) # 2 THEN TRUE
    ELSE HoldsBetween(sm, Strip(parts[1]), Strip(parts[2]))

\* StateManager._check_relationship_holds
check_relationship_holds(sm, relationship) ==
    IF ~StartsWith(relationship, sOnOpen) THEN TRUE
    ELSE HoldsParts(sm, Split(SubSeq(relationship, 4, Len(relationship) - 1)))

\* StateManager.get_relationships
get_relationships(sm) ==
    {rel \in sm.relationships : check_relationship_holds(sm, rel)}

\* StateManager.get_position: [found, pos]  (found = FALSE is None)
get_position(sm, obj) ==
    IF obj \in DOMAIN sm.objects
    THEN [found |-> TRUE, pos |-> sm.objects[obj]]
    ELSE [found |-> FALSE, pos |-> <<0, 0, 0>>]

\* StateManager.get_state_snapshot; the two lists are sets here
get_state_snapshot(sm) ==
    [objects            |-> sm.objects,
     relationships      |-> get_relationships(sm),
     intervened_objects |-> sm.intervened_objects]

\* a reset_to_initial that restores the positions and keeps the marks
\* (without self.intervened_objects.clear())
reset_to_initial_keeping_marks(sm) ==
    [sm EXCEPT !.objects = sm.initial_objects]

\* StateManager.reset_to_initial
reset_to_initial(sm) ==
    [sm EXCEPT !.objects = sm.initial_objects, !.intervened_objects = {}]

(***************************************************************************)
(* InterventionApplier (interventions.py)                                  *)
(***************************************************************************)

ParseFailure == [ok |-> FALSE, direction |-> <<>>, magnitude |-> 0]

\* parse_action after direction = parts[0].strip() and
\* magnitude = float(parts[1].strip())
ParsedFields(direction, magnitude) ==
    IF ~magnitude.ok \/ direction \notin DirectionTokens THEN ParseFailure
    ELSE [ok |-> TRUE, direction |-> direction, magnitude |-> magnitude.val]

\* a parse_action that does not strip its two fields
ParsedParts_unstripped(parts) ==
    IF Len(parts) # 2 THEN ParseFailure
    ELSE ParsedFields(parts[1], ParseFloat(parts[2]))

\* parse_action after parts = action.split(',')
ParsedParts(parts) ==
    IF Len(parts) # 2 THEN ParseFailure
    ELSE ParsedFields(Strip(parts[1]), ParseFloat(Strip(parts[2])))

\* InterventionApplier.parse_action: ok = FALSE is (None, None)
parse_action(action) == ParsedParts(Split(action))

\* _apply_shift after success = self.state_manager.apply_shift(...)
ShiftOutcome(sm, shift_reward, r) ==
    IF ~r.ok
    THEN [success |-> FALSE, reward |-> 0, sm |-> sm, handler |-> "shift"]
    ELSE [success |-> TRUE, reward |-> shift_reward, sm |-> r.sm,
          handler |-> "shift"]

\* _apply_shift after direction, magnitude = self.parse_action(action)
ShiftParsed(sm, shift_reward, obj, p) ==
    IF ~p.ok
    THEN [success |-> FALSE, reward |-> 0, sm |-> sm, handler |-> "shift"]
    ELSE ShiftOutcome(sm, shift_reward,
                      apply_shift(sm, obj, p.direction, p.magnitude))

\* InterventionApplier._apply_shift: [success, reward, sm, handler]
apply_shift_action(sm, shift_reward, obj, action) ==
    ShiftParsed(sm, shift_reward, obj, parse_action(action))

\* InterventionApplier._apply_swap: a stub
apply_swap(sm, action) ==
    [success |-> FALSE, reward |-> 0, sm |-> sm, handler |-> "swap"]

\* InterventionApplier._apply_pick_place: a stub
apply_pick_place(sm, obj, action) ==
    [success |-> FALSE, reward |-> 0, sm |-> sm, handler |-> "pick_place"]

\* an apply that tests the swap pattern before the shift pattern
apply_swap_first(sm, shift_reward, obj, action) ==
    IF obj = sSwap /\ Contains(action, sComma)
    THEN apply_swap(sm, action)
    ELSE IF Contains(action, sComma)
            /\ (\E d \in DirectionTokens : Contains(action, d))
    THEN apply_shift_action(sm, shift_reward, obj, action)
    ELSE IF Contains(action, sPick) \/ Contains(action, sPlace)
    THEN apply_pick_place(sm, obj, action)
    ELSE [success |-> FALSE, reward |-> 0, sm |-> sm, handler |-> "unknown"]

\* InterventionApplier.apply.  `handler` names the branch taken (the branch's
\* print); the code returns only (success, reward) and mutates sm in place.
apply(sm, shift_reward, obj, action) ==
    IF Contains(action, sComma) /\ (\E d \in DirectionTokens : Contains(action, d))
    THEN apply_shift_action(sm, shift_reward, obj, action)
    ELSE IF obj = sSwap /\ Contains(action, sComma)
    THEN apply_swap(sm, action)
    ELSE IF Contains(action, sPick) \/ Contains(action, sPlace)
    THEN apply_pick_place(sm, obj, action)
    ELSE [success |-> FALSE, reward |-> 0, sm |-> sm, handler |-> "unknown"]

(***************************************************************************)
(* RewardShaper (reward_shaper.py).  A RewardShaper is the record          *)
(* [goal, shift_bonus, depth_penalty].                                     *)
(***************************************************************************)

\* the reward 1.0, in eightieths
One == 80

\* a step_reward that also takes 0.1 off for each relationship lost
\* (reward -= 0.1 * len(prev_rels - curr_rels), 0.1 as 8 eightieths)
step_reward_penalising_lost(shaper, prev_rels, curr_rels, action) ==
    (IF \E d \in DirectionTokens : Contains(action, d)
     THEN shaper.shift_bonus
     ELSE 0) - 8 * Cardinality(prev_rels \ curr_rels)

\* RewardShaper.step_reward
step_reward(shaper, prev_rels, curr_rels, action) ==
    IF \E d \in DirectionTokens : Contains(action, d)
    THEN shaper.shift_bonus
    ELSE 0

\* a final_reward that never goes below zero (max(0.0, base - penalty))
final_reward_clamped(shaper, final_rels, interventions) ==
    LET base == IF Cardinality(shaper.goal) = 0 THEN One
                ELSE (One * Cardinality(final_rels \cap shaper.goal))
                         \div Cardinality(shaper.goal)
        penalty == shaper.depth_penalty * Len(interventions)
    IN  IF base - penalty < 0 THEN 0 ELSE base - penalty

\* a final_reward whose penalty does not grow with the interventions
\* (penalty = depth_penalty if interventions else 0)
final_reward_flat_penalty(shaper, final_rels, interventions) ==
    LET base == IF Cardinality(shaper.goal) = 0 THEN One
                ELSE (One * Cardinality(final_rels \cap shaper.goal))
                         \div Cardinality(shaper.goal)
        penalty == IF interventions = <<>> THEN 0 ELSE shaper.depth_penalty
    IN  base - penalty

\* RewardShaper.final_reward.  achieved / total is exact in eightieths for
\* the goal sizes of the scenarios (1, 2, 4).
final_reward(shaper, final_rels, interventions) ==
    LET base == IF Cardinality(shaper.goal) = 0 THEN One
                ELSE (One * Cardinality(final_rels \cap shaper.goal))
                         \div Cardinality(shaper.goal)
        penalty == shaper.depth_penalty * Len(interventions)
    IN  base - penalty

(***************************************************************************)
(* Scenarios: the inputs of CausalMCTS.__init__ (initial_state, scenario)  *)
(***************************************************************************)

o0 == <<"0">>
o1 == <<"1">>
o2 == <<"2">>
o3 == <<"3">>
o4 == <<"4">>

\* 'On(1,0)' and 'On(2,0)'
On10 == <<"O", "n", "(", "1", ",", "0", ")">>
On20 == <<"O", "n", "(", "2", ",", "0", ")">>

\* 'left,0.01', 'right,0.01', 'forward,0.01', 'back,0.01', and the swap '1,2'
aLeft    == sLeft \o <<",", "0", ".", "0", "1">>
aRight   == sRight \o <<",", "0", ".", "0", "1">>
aForward == sForward \o <<",", "0", ".", "0", "1">>
aBack    == sBack \o <<",", "0", ".", "0", "1">>
aSwap12  == <<"1", ",", "2">>
\* 'left,abc', a shift whose magnitude is no number
aLeftAbc == sLeft \o <<",", "a", "b", "c">>

\* {0: [0,0,0], 1: [x,0,0]} with declared relationships {'On(1,0)'}
OneBlock(x) ==
    [objects       |-> (o0 :> <<0, 0, 0>>) @@ (o1 :> <<x, 0, 0>>),
     relationships |-> {On10}]

\* {0: [0,0,0], 1: [8,0,0], 2: [0,7,0]} (mm), declared On(1,0), On(2,0)
TwoBlocks ==
    [objects       |-> (o0 :> <<0, 0, 0>>) @@ (o1 :> <<8, 0, 0>>)
                           @@ (o2 :> <<0, 7, 0>>),
     relationships |-> {On10, On20}]

\* {0: [0,0,0], 1: [8,0,0], 2: [0,3,0]} (mm): block 2 is within 5 mm
TwoBlocksOneOff ==
    [objects       |-> (o0 :> <<0, 0, 0>>) @@ (o1 :> <<8, 0, 0>>)
                           @@ (o2 :> <<0, 3, 0>>),
     relationships |-> {On10, On20}]

\* {1: [3,0,0]} (mm), declared On(1,0): the reference block 0 is missing
LoneBlock ==
    [objects       |-> (o1 :> <<3, 0, 0>>),
     relationships |-> {On10}]

\* An intv_space dict is the sequence of its items in insertion order.
\* Rewards are in eightieths: depth_penalty 4 is 0.05 and 5 is 0.0625,
\* shift_bonus 20 is 0.25, termination_threshold 72 is 0.9.
Scenarios ==
    { \* the end-to-end scenario of the documentation: block 1 is 20 mm off,
      \* depth_penalty 0.05, termination_threshold 0.9
      [name |-> "e2e", initial_state |-> OneBlock(20),
       intv_space |-> << [obj |-> o1, actions |-> <<aLeft, aRight>>] >>,
       symbolic_goal |-> {On10}, shift_bonus |-> 0, depth_penalty |-> 4,
       termination_threshold |-> 72],
      \* block 1 is 12 mm off: 'left,0.01' brings it within 5 mm of block 0
      [name |-> "near", initial_state |-> OneBlock(12),
       intv_space |-> << [obj |-> o1, actions |-> <<aRight, aLeft>>] >>,
       symbolic_goal |-> {On10}, shift_bonus |-> 0, depth_penalty |-> 5,
       termination_threshold |-> 70],
      \* two blocks, a threshold (1.5) some rollouts reach
      [name |-> "two", initial_state |-> TwoBlocks,
       intv_space |-> << [obj |-> o1, actions |-> <<aLeft>>],
                         [obj |-> o2, actions |-> <<aBack, aForward>>] >>,
       symbolic_goal |-> {On10, On20}, shift_bonus |-> 0, depth_penalty |-> 5,
       termination_threshold |-> 120],
      \* two blocks, a threshold (9.0) no rollout reaches
      [name |-> "far", initial_state |-> TwoBlocks,
       intv_space |-> << [obj |-> o1, actions |-> <<aLeft>>],
                         [obj |-> o2, actions |-> <<aBack, aForward>>] >>,
       symbolic_goal |-> {On10, On20}, shift_bonus |-> 20, depth_penalty |-> 5,
       termination_threshold |-> 720],
      \* an empty intervention space
      [name |-> "empty", initial_state |-> OneBlock(20),
       intv_space |-> << >>,
       symbolic_goal |-> {On10}, shift_bonus |-> 0, depth_penalty |-> 5,
       termination_threshold |-> 70],
      \* the reserved object "Swap", which may be intervened on repeatedly
      [name |-> "swap", initial_state |-> TwoBlocks,
       intv_space |-> << [obj |-> sSwap, actions |-> <<aSwap12>>],
                         [obj |-> o1, actions |-> <<aLeft>>] >>,
       symbolic_goal |-> {On10, On20}, shift_bonus |-> 20, depth_penalty |-> 5,
       termination_threshold |-> 720],
      \* a prefix that reaches the threshold (1.25) while block 2 can still
      \* be shifted
      [name |-> "exit", initial_state |-> TwoBlocksOneOff,
       intv_space |-> << [obj |-> o2, actions |-> <<aForward>>],
                         [obj |-> o1, actions |-> <<aLeft>>] >>,
       symbolic_goal |-> {On10, On20}, shift_bonus |-> 0, depth_penalty |-> 5,
       termination_threshold |-> 100],
      \* a state without the reference block 0, a descriptor whose
      \* magnitude is no number and an object the state does not hold
      [name |-> "noref", initial_state |-> LoneBlock,
       intv_space |-> << [obj |-> o1, actions |-> <<aLeftAbc, aLeft>>],
                         [obj |-> o2, actions |-> <<aBack>>] >>,
       symbolic_goal |-> {On10}, shift_bonus |-> 20, depth_penalty |-> 5,
       termination_threshold |-> 720] }

\* the largest iteration budget and the largest max_rollout_depth explored
MaxIterations == 6
MaxRolloutDepth == 3

(***************************************************************************)
(* Program constants of CausalMCTS.rollout                                 *)
(***************************************************************************)

\* alignment_threshold=0.005 (metres) of the rollout's StateManager, in mm
RolloutAlignmentThreshold == 5
\* shift_reward=0.0 of the rollout's InterventionApplier
RolloutShiftReward == 0
\* misalignment_bonus += 0.25, in eightieths
AlignmentBonus == 20
\* for obj in ['1', '2', '3', '4'], reference='0'
TrackedObjects == <<o1, o2, o3, o4>>

(***************************************************************************)
(* State                                                                   *)
(***************************************************************************)

VARIABLES
    scenario,        \* the configuration the engine was constructed with
    max_rollout_depth, \* self.max_rollout_depth
    iterations,      \* the argument of search_resolution
    nodes,           \* the MCTSNode objects, in creation order; root = 1
    reward_history,  \* self.reward_history
    solution_found,  \* self.solution_found
    pc,              \* the position in search_resolution
    i,               \* the loop variable of search_resolution
    node,            \* the local `node` (the result of select)
    child,           \* the local `child` (the result of expand)
    reward,          \* the local `reward` (the result of rollout)
    result,          \* the value search_resolution returned
    completed,       \* history: the iterations that ran rollout and backpropagate
    selected_into,   \* history: the root children a selection went into
    state_mgr,       \* a StateManager that is called on its own
    returned,        \* the last call made on its own and the value it returned
                     \* (for an engine: the search_resolution call before this one)
    unit_calls,      \* the number of calls made on the objects called on their own
                     \* (for an engine: the search_resolution calls after the first)
    applier,         \* an InterventionApplier (over state_mgr) called on its own
    shaper           \* a RewardShaper that is called on its own

vars == <<scenario, max_rollout_depth, iterations, nodes, reward_history,
          solution_found, pc, i, node, child, reward, result, completed,
          selected_into, state_mgr, returned, unit_calls, applier, shaper>>

\* the variables of the objects called on their own
unit_vars == <<state_mgr, returned, unit_calls, applier, shaper>>

\* no state manager is called on its own
NoStateManager == StateManager([objects |-> <<>>, relationships |-> {}], 0)
NoCall == [op |-> "none"]
\* no applier and no reward shaper are called on their own
NoApplier == [shift_reward |-> 0]
NoShaper == [goal |-> {}, shift_bonus |-> 0, depth_penalty |-> 0]

\* the attributes CausalMCTS.__init__ reads from its arguments
initial_state == scenario.initial_state
intervention_space == scenario.intv_space
termination_threshold == scenario.termination_threshold
reward_shaper ==
    [goal |-> scenario.symbolic_goal, shift_bonus |-> scenario.shift_bonus,
     depth_penalty |-> scenario.depth_penalty]

Root == 1

(***************************************************************************)
(* MCTSNode and CausalMCTS (mcts.py)                                       *)
(***************************************************************************)

\* untried_actions is None (init = FALSE) or a list
NoneActions == [init |-> FALSE, list |-> <<>>]
Populated(list) == [init |-> TRUE, list |-> list]
\* Python truthiness of untried_actions: not None and not empty
Truthy(untried) == untried.init /\ untried.list # <<>>

\* a constructor that records the node's own interventions as violations
\* (self.local_violations = set(interventions))
MCTSNode_recording_interventions(interventions, parent) ==
    [interventions    |-> interventions,
     parent           |-> parent,
     children         |-> <<>>,
     visits           |-> 0,
     total_reward     |-> 0,
     untried_actions  |-> NoneActions,
     local_violations |-> {interventions[k] : k \in 1..Len(interventions)}]

\* MCTSNode.__init__
MCTSNode(interventions, parent) ==
    [interventions    |-> interventions,
     parent           |-> parent,
     children         |-> <<>>,
     visits           |-> 0,
     total_reward     |-> 0,
     untried_actions  |-> NoneActions,
     local_violations |-> {}]

\* the (obj, action) candidates in the order of the two nested loops of
\* get_legal_actions: the dict's items in order, each list in order
RECURSIVE Candidates(_)
Candidates(space) ==
    IF space = <<>> THEN <<>>
    ELSE [k \in 1..Len(Head(space).actions) |->
             <<Head(space).obj, Head(space).actions[k]>>]
         \o Candidates(Tail(space))

\* get_legal_actions without the skip of objects already intervened on
get_legal_actions_any_object(interventions, nd) ==
    LET Legal(candidate) == candidate \notin nd.local_violations
    IN  SelectSeq(Candidates(intervention_space), Legal)

\* CausalMCTS.get_legal_actions(interventions, node), for the node record nd
get_legal_actions(interventions, nd) ==
    LET intervened_objects ==
            {interventions[k][1] : k \in 1..Len(interventions)}
        Legal(candidate) ==
            /\ candidate \notin nd.local_violations
            /\ ~(candidate[1] \in intervened_objects /\ candidate[1] # sSwap)
    IN  SelectSeq(Candidates(intervention_space), Legal)

\* a score whose exploration term is 0.0 for an unvisited child as well
ScoreOf_without_infinity(nd, c) ==
    IF c.visits > 0
    THEN [inf |-> FALSE, num |-> c.total_reward, den |-> c.visits]
    ELSE [inf |-> FALSE, num |-> 0, den |-> 1]

\* a UCT score: +inf, or the rational num/den.  The engine is constructed
\* with exploration_constant=0.0, so a finite score is exploit + 0.0.
ScoreOf(nd, c) ==
    IF c.visits > 0 /\ nd.visits > 0
    THEN [inf |-> FALSE, num |-> c.total_reward, den |-> c.visits]
    ELSE [inf |-> TRUE, num |-> 0, den |-> 1]

\* a comparison that also replaces the best child on an equal score
\* (score >= best_score)
ScoreGreater_or_equal(score, best) ==
    IF score.inf THEN TRUE
    ELSE IF best.inf THEN FALSE
    ELSE score.num * best.den >= best.num * score.den

\* score > best_score, for a best_score that is not -inf
ScoreGreater(score, best) ==
    IF best.inf THEN FALSE
    ELSE IF score.inf THEN TRUE
    ELSE score.num * best.den > best.num * score.den

\* the loop of _best_child over node.children[k..]; best_child = 0 is None,
\* and then best_score is -inf, below every score
RECURSIVE BestChildFrom(_, _, _, _, _)
BestChildFrom(ns, n, k, best_child, best_score) ==
    IF k > Len(ns[n].children) THEN best_child
    ELSE LET c == ns[n].children[k]
             score == ScoreOf(ns[n], ns[c])
         IN  IF best_child = 0 \/ ScoreGreater(score, best_score)
             THEN BestChildFrom(ns, n, k + 1, c, score)
             ELSE BestChildFrom(ns, n, k + 1, best_child, best_score)

\* CausalMCTS._best_child
best_child(ns, n) ==
    BestChildFrom(ns, n, 1, 0, [inf |-> FALSE, num |-> 0, den |-> 1])

\* a select that descends as long as there are children, whether or not
\* the node has untried actions
RECURSIVE select_descend_first(_, _)
select_descend_first(ns, n) ==
    IF ns[n].children # <<>>
    THEN select_descend_first(ns, best_child(ns, n))
    ELSE [nodes |-> ns, node |-> n]

\* the loop of select: [nodes, node], nodes with the untried lists it filled
RECURSIVE SelectFrom(_, _)
SelectFrom(ns, n) ==
    IF Truthy(ns[n].untried_actions) THEN [nodes |-> ns, node |-> n]
    ELSE IF ns[n].children # <<>>
    THEN LET c == best_child(ns, n)
             ns1 == IF ~ns[c].untried_actions.init
                    THEN [ns EXCEPT ![c].untried_actions =
                             Populated(get_legal_actions(ns[c].interventions,
                                                         ns[c]))]
                    ELSE ns
         IN  SelectFrom(ns1, c)
    ELSE [nodes |-> ns, node |-> n]

\* CausalMCTS.select
select(ns, n) == SelectFrom(ns, n)

\* an expand that takes the first untried action without removing it
\* (untried_actions[0] instead of untried_actions.pop(0))
expand_without_pop(ns, n) ==
    LET ns1 == IF ~ns[n].untried_actions.init
               THEN [ns EXCEPT ![n].untried_actions =
                        Populated(get_legal_actions(ns[n].interventions, ns[n]))]
               ELSE ns
        untried == ns1[n].untried_actions.list
    IN  IF untried = <<>> THEN [nodes |-> ns1, child |-> n]
        ELSE [nodes |->
                  Append([ns1 EXCEPT ![n].children = Append(@, Len(ns1) + 1)],
                         MCTSNode(Append(ns1[n].interventions, Head(untried)),
                                  n)),
              child |-> Len(ns1) + 1]

\* CausalMCTS.expand: [nodes, child]
expand(ns, n) ==
    LET ns1 == IF ~ns[n].untried_actions.init
               THEN [ns EXCEPT ![n].untried_actions =
                        Populated(get_legal_actions(ns[n].interventions, ns[n]))]
               ELSE ns
        untried == ns1[n].untried_actions.list
    IN  IF untried = <<>> THEN [nodes |-> ns1, child |-> n]
        ELSE LET action == Head(untried)
                 new == Len(ns1) + 1
                 new_interventions == Append(ns1[n].interventions, action)
             IN  [nodes |->
                      Append([ns1 EXCEPT
                                 ![n].untried_actions = Populated(Tail(untried)),
                                 ![n].children = Append(@, new)],
                             MCTSNode(new_interventions, n)),
                  child |-> new]

\* a backpropagate whose loop stops below the root
\* (while node.parent is not None)
RECURSIVE backpropagate_below_root(_, _, _)
backpropagate_below_root(ns, n, r) ==
    IF n = 0 \/ ns[n].parent = 0 THEN ns
    ELSE backpropagate_below_root(
             [ns EXCEPT ![n].visits = @ + 1, ![n].total_reward = @ + r],
             ns[n].parent, r)

\* a backpropagate that updates the rolled-out node and the root only
backpropagate_ends_only(ns, n, r) ==
    IF n = Root
    THEN [ns EXCEPT ![Root].visits = @ + 1, ![Root].total_reward = @ + r]
    ELSE [ns EXCEPT ![n].visits = @ + 1, ![n].total_reward = @ + r,
                    ![Root].visits = @ + 1, ![Root].total_reward = @ + r]

\* a backpropagate that assigns the reward instead of adding it
\* (node.total_reward = reward)
RECURSIVE backpropagate_assigning(_, _, _)
backpropagate_assigning(ns, n, r) ==
    IF n = 0 THEN ns
    ELSE backpropagate_assigning(
             [ns EXCEPT ![n].visits = @ + 1, ![n].total_reward = r],
             ns[n].parent, r)

\* a backpropagate that assigns the node's violations to its parent
\* (node.parent.local_violations = set(node.local_violations))
RECURSIVE backpropagate_replacing(_, _, _)
backpropagate_replacing(ns, n, r) ==
    IF n = 0 THEN ns
    ELSE LET ns1 == [ns EXCEPT ![n].visits = @ + 1,
                               ![n].total_reward = @ + r]
             par == ns1[n].parent
             ns2 == IF par # 0
                    THEN [ns1 EXCEPT ![par].local_violations =
                             ns1[n].local_violations]
                    ELSE ns1
         IN  backpropagate_replacing(ns2, par, r)

\* a backpropagate that starts at the parent of the rolled-out node
\* (node = node.parent before the loop)
RECURSIVE backpropagate_from_parent(_, _, _)
backpropagate_from_parent(ns, n, r) ==
    IF n = 0 \/ ns[n].parent = 0 THEN ns
    ELSE backpropagate_from_parent(
             [ns EXCEPT ![ns[n].parent].visits = @ + 1,
                        ![ns[n].parent].total_reward = @ + r,
                        ![ns[n].parent].local_violations =
                            @ \cup ns[n].local_violations],
             ns[n].parent, r)

\* CausalMCTS.backpropagate
RECURSIVE BackpropagateFrom(_, _, _)
BackpropagateFrom(ns, n, r) ==
    IF n = 0 THEN ns
    ELSE LET ns1 == [ns EXCEPT ![n].visits = @ + 1,
                               ![n].total_reward = @ + r]
             par == ns1[n].parent
             ns2 == IF par # 0
                    THEN [ns1 EXCEPT ![par].local_violations =
                             @ \cup ns1[n].local_violations]
                    ELSE ns1
         IN  BackpropagateFrom(ns2, par, r)

backpropagate(ns, n, r) == BackpropagateFrom(ns, n, r)

(***************************************************************************)
(* CausalMCTS.rollout.  The state of a rollout is the record               *)
(* [sm, prev_rels, shaped_reward]; random.choice makes its outcome a set.  *)
(***************************************************************************)

\* a step that counts the step reward of a successful application only
\* (if success: shaped_reward += self.reward_shaper.step_reward(...))
StepScored_on_success(st, action, r, current_rels) ==
    [sm            |-> r.sm,
     prev_rels     |-> current_rels,
     shaped_reward |-> st.shaped_reward
                       + (IF r.success
                          THEN step_reward(reward_shaper, st.prev_rels,
                                           current_rels, action)
                          ELSE 0)
                       + r.reward]

\* one intervention of a rollout, after applier.apply and get_relationships
StepScored(st, action, r, current_rels) ==
    [sm            |-> r.sm,
     prev_rels     |-> current_rels,
     shaped_reward |-> st.shaped_reward
                       + step_reward(reward_shaper, st.prev_rels,
                                     current_rels, action)
                       + r.reward]

StepApplied(st, action, r) == StepScored(st, action, r, get_relationships(r.sm))

\* one intervention of a rollout: apply, get_relationships, step_reward
RolloutStep(st, obj, action) ==
    StepApplied(st, action, apply(st.sm, RolloutShiftReward, obj, action))

\* 1) the prefix: for obj, action in node.interventions[k..]
RECURSIVE ReplayFrom(_, _, _)
ReplayFrom(st, interventions, k) ==
    IF k > Len(interventions) THEN st
    ELSE ReplayFrom(RolloutStep(st, interventions[k][1], interventions[k][2]),
                    interventions, k + 1)

\* obj's bonus in the branch with the debug prints
DebugBonusOf(sm, obj, obj_pos, ref_pos) ==
    IF obj_pos.found /\ ref_pos.found /\ ~check_misalignment(sm, obj, o0)
    THEN AlignmentBonus ELSE 0

\* the bonus of the branch with the debug prints (at most one intervention)
RECURSIVE DebugBonusFrom(_, _)
DebugBonusFrom(sm, k) ==
    IF k > Len(TrackedObjects) THEN 0
    ELSE DebugBonusOf(sm, TrackedObjects[k],
                      get_position(sm, TrackedObjects[k]),
                      get_position(sm, o0))
         + DebugBonusFrom(sm, k + 1)

\* a bonus for every tracked object that check_misalignment reports
\* (the test without its `not`)
RECURSIVE PlainBonusFrom_misaligned(_, _)
PlainBonusFrom_misaligned(sm, k) ==
    IF k > Len(TrackedObjects) THEN 0
    ELSE (IF check_misalignment(sm, TrackedObjects[k], o0)
          THEN AlignmentBonus ELSE 0)
         + PlainBonusFrom_misaligned(sm, k + 1)

\* the bonus of the branch without prints
RECURSIVE PlainBonusFrom(_, _)
PlainBonusFrom(sm, k) ==
    IF k > Len(TrackedObjects) THEN 0
    ELSE (IF ~check_misalignment(sm, TrackedObjects[k], o0)
          THEN AlignmentBonus ELSE 0)
         + PlainBonusFrom(sm, k + 1)

misalignment_bonus(sm, interventions) ==
    IF Len(interventions) <= 1 THEN DebugBonusFrom(sm, 1)
    ELSE PlainBonusFrom(sm, 1)

Max(a, b) == IF a >= b THEN a ELSE b

\* a suffix whose legal actions are those of the node's own sequence
\* (get_legal_actions(node.interventions, node)), whatever was appended
RECURSIVE SuffixOutcomes_of_prefix(_, _, _, _)
SuffixOutcomes_of_prefix(st, rollout_history, budget, nd) ==
    IF budget = 0 \/ get_legal_actions(nd.interventions, nd) = <<>>
    THEN {[st |-> st, rollout_history |-> rollout_history]}
    ELSE UNION { SuffixOutcomes_of_prefix(
                     RolloutStep(st,
                         get_legal_actions(nd.interventions, nd)[k][1],
                         get_legal_actions(nd.interventions, nd)[k][2]),
                     Append(rollout_history,
                            get_legal_actions(nd.interventions, nd)[k]),
                     budget - 1, nd)
                 : k \in 1..Len(get_legal_actions(nd.interventions, nd)) }

\* one pass of the suffix loop, after valid_actions = get_legal_actions(...)
RECURSIVE SuffixOutcomes(_, _, _, _)
SuffixChoice(st, rollout_history, budget, nd, valid_actions) ==
    IF valid_actions = <<>>
    THEN {[st |-> st, rollout_history |-> rollout_history]}
    ELSE UNION { SuffixOutcomes(
                     RolloutStep(st, valid_actions[k][1], valid_actions[k][2]),
                     Append(rollout_history, valid_actions[k]),
                     budget - 1, nd)
                 : k \in 1..Len(valid_actions) }

\* 3) the random suffix: the set of [st, rollout_history] the loop can end in
SuffixOutcomes(st, rollout_history, budget, nd) ==
    IF budget = 0 THEN {[st |-> st, rollout_history |-> rollout_history]}
    ELSE SuffixChoice(st, rollout_history, budget, nd,
                      get_legal_actions(rollout_history, nd))

\* the end of a full rollout: the final reward is added and the entry made
FullOutcome(o) ==
    [interventions |-> o.rollout_history,
     reward |-> o.st.shaped_reward
                + final_reward(reward_shaper, get_relationships(o.st.sm),
                               o.rollout_history),
     initial_state |-> initial_state_after(initial_state, o.st.sm)]

\* a rollout without the early exit: the suffix is always simulated
AfterPrefix_without_exit(nd, st1, shaped_reward) ==
    {FullOutcome(o) :
        o \in SuffixOutcomes(
                  [st1 EXCEPT !.shaped_reward = shaped_reward],
                  nd.interventions,
                  Max(0, max_rollout_depth - Len(nd.interventions)),
                  nd)}

\* 2) the early exit, or 3) the suffix, once the prefix's final reward and
\* the bonus are added
AfterPrefix(nd, st1, shaped_reward) ==
    IF shaped_reward >= termination_threshold
    THEN {[interventions |-> nd.interventions, reward |-> shaped_reward,
           initial_state |-> initial_state_after(initial_state, st1.sm)]}
    ELSE {FullOutcome(o) :
             o \in SuffixOutcomes(
                       [st1 EXCEPT !.shaped_reward = shaped_reward],
                       nd.interventions,
                       Max(0, max_rollout_depth - Len(nd.interventions)),
                       nd)}

\* the rollout once the prefix is replayed
Replayed(nd, st1) ==
    AfterPrefix(nd, st1,
                st1.shaped_reward
                + final_reward(reward_shaper, get_relationships(st1.sm),
                               nd.interventions)
                + misalignment_bonus(st1.sm, nd.interventions))

\* rollout(node) of an engine whose initial_state is state0
rollout_from(state0, nd) ==
    Replayed(nd,
             ReplayFrom([sm |->
                             StateManager(state0, RolloutAlignmentThreshold),
                         prev_rels |-> state0.relationships,
                         shaped_reward |-> 0],
                        nd.interventions, 1))

\* CausalMCTS.rollout(node), for the node record nd: the set of outcomes
\* [interventions, reward, initial_state]: the entry appended to
\* reward_history, the value returned, and self.initial_state afterwards
rollout(nd) == rollout_from(initial_state, nd)

(***************************************************************************)
(* CausalMCTS.search_resolution, one action per phase of its loop          *)
(***************************************************************************)

NoResult == [interventions |-> <<>>, iterations |-> 0 - 1]

\* the max_rollout_depth argument: __init__ stores what it is given, so a
\* negative depth is among the values an engine is constructed with
RolloutDepths == {0 - 1} \cup 0..MaxRolloutDepth

\* CausalMCTS.__init__ on a scenario, before search_resolution is called
Init ==
    /\ scenario \in Scenarios
    /\ max_rollout_depth \in RolloutDepths
    /\ iterations \in 0..MaxIterations
    /\ scenario.name = "e2e" => iterations <= 3
    /\ nodes = <<>>
    /\ reward_history = <<>>
    /\ solution_found = FALSE
    /\ pc = "init"
    /\ i = 0
    /\ node = 0
    /\ child = 0
    /\ reward = 0
    /\ result = NoResult
    /\ completed = 0
    /\ selected_into = {}
    /\ state_mgr = NoStateManager
    /\ returned = NoCall
    /\ unit_calls = 0
    /\ applier = NoApplier
    /\ shaper = NoShaper

\* root = MCTSNode(); root.untried_actions = get_legal_actions([], root)
SearchStart ==
    /\ UNCHANGED unit_vars
    /\ pc = "init"
    /\ LET root == MCTSNode(<<>>, 0)
       IN  nodes' = << [root EXCEPT !.untried_actions =
                           Populated(get_legal_actions(<<>>, root))] >>
    /\ i' = 0
    /\ pc' = "select"
    /\ UNCHANGED <<scenario, max_rollout_depth, iterations, reward_history,
                   solution_found, node, child, reward, result, completed,
                   selected_into>>

\* the root child on the path from the root to node n (0 for the root)
RECURSIVE RootChildOf(_, _)
RootChildOf(ns, n) ==
    IF n = Root THEN 0
    ELSE IF ns[n].parent = Root THEN n
    ELSE RootChildOf(ns, ns[n].parent)

\* for i in range(iterations): node = self.select(root)
Select ==
    /\ UNCHANGED unit_vars
    /\ pc = "select"
    /\ i < iterations
    /\ LET r == select(nodes, Root)
       IN  /\ nodes' = r.nodes
           /\ node' = r.node
           /\ selected_into' =
                  IF r.node = Root THEN selected_into
                  ELSE selected_into \cup {RootChildOf(r.nodes, r.node)}
    /\ pc' = "expand"
    /\ UNCHANGED <<scenario, max_rollout_depth, iterations, reward_history,
                   solution_found, i, child, reward, result, completed>>

\* an Expand step without `if child.interventions == []: continue`
Expand_without_skip ==
    /\ UNCHANGED unit_vars
    /\ pc = "expand"
    /\ LET e == expand(nodes, node)
       IN  /\ nodes' = e.nodes
           /\ child' = e.child
           /\ selected_into' =
                  IF e.child = Root THEN selected_into
                  ELSE selected_into \cup {RootChildOf(e.nodes, e.child)}
           /\ IF solution_found
              THEN /\ pc' = "done"
                   /\ result' =
                          [interventions |->
                               IF reward_history # <<>>
                               THEN reward_history[Len(reward_history)]
                                        .interventions
                               ELSE e.nodes[e.child].interventions,
                           iterations |-> i]
              ELSE /\ pc' = "rollout"
                   /\ result' = result
    /\ UNCHANGED <<scenario, max_rollout_depth, iterations, reward_history,
                   solution_found, i, node, reward, completed>>

\* an Expand step that also skips the iteration when expand created no
\* node (if child is node: continue)
Expand_skipping_unexpanded ==
    /\ UNCHANGED unit_vars
    /\ pc = "expand"
    /\ LET e == expand(nodes, node)
       IN  /\ nodes' = e.nodes
           /\ child' = e.child
           /\ selected_into' =
                  IF e.child = Root \/ e.child = node THEN selected_into
                  ELSE selected_into \cup {RootChildOf(e.nodes, e.child)}
           /\ IF e.child = node
              THEN /\ i' = i + 1
                   /\ pc' = "select"
                   /\ result' = result
              ELSE IF solution_found
              THEN /\ i' = i
                   /\ pc' = "done"
                   /\ result' =
                          [interventions |->
                               IF reward_history # <<>>
                               THEN reward_history[Len(reward_history)]
                                        .interventions
                               ELSE e.nodes[e.child].interventions,
                           iterations |-> i]
              ELSE /\ i' = i
                   /\ pc' = "rollout"
                   /\ result' = result
    /\ UNCHANGED <<scenario, max_rollout_depth, iterations, reward_history,
                   solution_found, node, reward, completed>>

\* an Expand step that tries the same iteration again when the root is
\* exhausted, instead of moving on to the next one
Expand_retrying_exhausted_root ==
    /\ UNCHANGED unit_vars
    /\ pc = "expand"
    /\ LET e == expand(nodes, node)
       IN  /\ nodes' = e.nodes
           /\ child' = e.child
           /\ selected_into' =
                  IF e.child = Root THEN selected_into
                  ELSE selected_into \cup {RootChildOf(e.nodes, e.child)}
           /\ IF e.nodes[e.child].interventions = <<>>
              THEN /\ i' = i
                   /\ pc' = "select"
                   /\ result' = result
              ELSE IF solution_found
              THEN /\ i' = i
                   /\ pc' = "done"
                   /\ result' =
                          [interventions |->
                               IF reward_history # <<>>
                               THEN reward_history[Len(reward_history)]
                                        .interventions
                               ELSE e.nodes[e.child].interventions,
                           iterations |-> i]
              ELSE /\ i' = i
                   /\ pc' = "rollout"
                   /\ result' = result
    /\ UNCHANGED <<scenario, max_rollout_depth, iterations, reward_history,
                   solution_found, node, reward, completed>>

\* child = self.expand(node), the skip of an exhausted root, and the
\* solution_found return
Expand ==
    /\ UNCHANGED unit_vars
    /\ pc = "expand"
    /\ LET e == expand(nodes, node)
       IN  /\ nodes' = e.nodes
           /\ child' = e.child
           /\ selected_into' =
                  IF e.child = Root THEN selected_into
                  ELSE selected_into \cup {RootChildOf(e.nodes, e.child)}
           /\ IF e.nodes[e.child].interventions = <<>>
              THEN /\ i' = i + 1
                   /\ pc' = "select"
                   /\ result' = result
              ELSE IF solution_found
              THEN /\ i' = i
                   /\ pc' = "done"
                   /\ result' =
                          [interventions |->
                               IF reward_history # <<>>
                               THEN reward_history[Len(reward_history)]
                                        .interventions
                               ELSE e.nodes[e.child].interventions,
                           iterations |-> i]
              ELSE /\ i' = i
                   /\ pc' = "rollout"
                   /\ result' = result
    /\ UNCHANGED <<scenario, max_rollout_depth, iterations, reward_history,
                   solution_found, node, reward, completed>>

\* a rollout whose early-exit path returns without the history entry
Rollout_without_early_entry ==
    /\ UNCHANGED unit_vars
    /\ pc = "rollout"
    /\ \E out \in rollout(nodes[child]) :
           /\ reward' = out.reward
           /\ reward_history' =
                  IF Len(out.interventions) = Len(nodes[child].interventions)
                     /\ out.reward >= termination_threshold
                  THEN reward_history
                  ELSE Append(reward_history,
                              [interventions |-> out.interventions,
                               reward |-> out.reward])
           /\ scenario' = [scenario EXCEPT
                               !.initial_state = out.initial_state]
    /\ pc' = "backpropagate"
    /\ UNCHANGED <<max_rollout_depth, iterations, nodes,
                   solution_found, i, node, child, result, completed,
                   selected_into>>

\* reward = self.rollout(child)
Rollout ==
    /\ UNCHANGED unit_vars
    /\ pc = "rollout"
    /\ \E out \in rollout(nodes[child]) :
           /\ reward' = out.reward
           /\ reward_history' =
                  Append(reward_history,
                         [interventions |-> out.interventions,
                          reward |-> out.reward])
           /\ scenario' = [scenario EXCEPT
                               !.initial_state = out.initial_state]
    /\ pc' = "backpropagate"
    /\ UNCHANGED <<max_rollout_depth, iterations, nodes,
                   solution_found, i, node, child, result, completed,
                   selected_into>>

\* self.backpropagate(child, reward)
Backpropagate ==
    /\ UNCHANGED unit_vars
    /\ pc = "backpropagate"
    /\ nodes' = backpropagate(nodes, child, reward)
    /\ pc' = "check"
    /\ UNCHANGED <<scenario, max_rollout_depth, iterations, reward_history,
                   solution_found, i, node, child, reward, result, completed,
                   selected_into>>

\* a termination check that sets solution_found and goes on with the loop
CheckTermination_without_return ==
    /\ UNCHANGED unit_vars
    /\ pc = "check"
    /\ completed' = completed + 1
    /\ solution_found' = (solution_found \/ reward >= termination_threshold)
    /\ pc' = "select"
    /\ i' = i + 1
    /\ UNCHANGED <<scenario, max_rollout_depth, iterations, nodes,
                   reward_history, node, child, reward, result,
                   selected_into>>

\* a termination check that takes any positive reward for a success
\* (if reward > 0)
CheckTermination_at_any_gain ==
    /\ UNCHANGED unit_vars
    /\ pc = "check"
    /\ completed' = completed + 1
    /\ IF reward > 0
       THEN /\ solution_found' = TRUE
            /\ result' = [interventions |-> nodes[child].interventions,
                          iterations |-> i]
            /\ pc' = "done"
            /\ i' = i
       ELSE /\ solution_found' = solution_found
            /\ result' = result
            /\ pc' = "select"
            /\ i' = i + 1
    /\ UNCHANGED <<scenario, max_rollout_depth, iterations, nodes,
                   reward_history, node, child, reward, selected_into>>

\* if reward >= self.termination_threshold: ... return child.interventions, i
CheckTermination ==
    /\ UNCHANGED unit_vars
    /\ pc = "check"
    /\ completed' = completed + 1
    /\ IF reward >= termination_threshold
       THEN /\ solution_found' = TRUE
            /\ result' = [interventions |-> nodes[child].interventions,
                          iterations |-> i]
            /\ pc' = "done"
            /\ i' = i
       ELSE /\ solution_found' = solution_found
            /\ result' = result
            /\ pc' = "select"
            /\ i' = i + 1
    /\ UNCHANGED <<scenario, max_rollout_depth, iterations, nodes,
                   reward_history, node, child, reward, selected_into>>

\* c.total_reward / c.visits if c.visits else 0.0, as the rational num/den
Average(c) ==
    IF c.visits # 0 THEN [num |-> c.total_reward, den |-> c.visits]
    ELSE [num |-> 0, den |-> 1]

\* a maximum that keeps the last of several equal averages (>=)
RECURSIVE MaxAverageFrom_last(_, _, _)
MaxAverageFrom_last(ns, k, best) ==
    IF k > Len(ns[Root].children) THEN best
    ELSE IF Average(ns[ns[Root].children[k]]).num * Average(ns[best]).den
            >= Average(ns[best]).num * Average(ns[ns[Root].children[k]]).den
    THEN MaxAverageFrom_last(ns, k + 1, ns[Root].children[k])
    ELSE MaxAverageFrom_last(ns, k + 1, best)

\* max(root.children, key=...) over children[k..]: the first maximum
RECURSIVE MaxAverageFrom(_, _, _)
MaxAverageFrom(ns, k, best) ==
    IF k > Len(ns[Root].children) THEN best
    ELSE LET c == ns[Root].children[k]
             a == Average(ns[c])
             b == Average(ns[best])
         IN  IF a.num * b.den > b.num * a.den
             THEN MaxAverageFrom(ns, k + 1, c)
             ELSE MaxAverageFrom(ns, k + 1, best)

\* the node with the best average among all nodes ns[k..] below the root
RECURSIVE MaxAverageOverTree(_, _, _)
MaxAverageOverTree(ns, k, best) ==
    IF k > Len(ns) THEN best
    ELSE IF Average(ns[k]).num * Average(ns[best]).den
            > Average(ns[best]).num * Average(ns[k]).den
    THEN MaxAverageOverTree(ns, k + 1, k)
    ELSE MaxAverageOverTree(ns, k + 1, best)

\* a return after the loop that takes the best node of the whole tree
\* instead of the best child of the root
best_solution_over_tree(ns) ==
    IF ns[Root].children # <<>>
    THEN ns[MaxAverageOverTree(ns, 3, 2)].interventions
    ELSE <<>>

\* the return after the loop: best.interventions, or [] without children
best_solution(ns) ==
    IF ns[Root].children # <<>>
    THEN ns[MaxAverageFrom(ns, 2, ns[Root].children[1])].interventions
    ELSE <<>>

\* the loop is over: return best.interventions, iterations
ReturnBest ==
    /\ UNCHANGED unit_vars
    /\ pc = "select"
    /\ i = iterations
    /\ result' = [interventions |-> best_solution(nodes),
                  iterations |-> iterations]
    /\ pc' = "done"
    /\ UNCHANGED <<scenario, max_rollout_depth, iterations, nodes,
                   reward_history, solution_found, i, node, child, reward,
                   completed, selected_into>>

Next ==
    \/ SearchStart
    \/ Select
    \/ Expand
    \/ Rollout
    \/ Backpropagate
    \/ CheckTermination
    \/ ReturnBest

Spec == Init /\ [][Next]_vars

\* the positions of search_resolution
Phases ==
    {"init", "select", "expand", "rollout", "backpropagate", "check", "done"}

\* search_resolution moves on from its position, as long as it has not
\* returned
Advance == pc # "done" /\ pc' \in Phases /\ pc' # pc

\* search_resolution runs on one thread of control that nothing suspends:
\* until the call returns, the phase it is in ends and the next one begins
FairSpec == Spec /\ WF_pc(Advance)

(***************************************************************************)
(* search_resolution called again on the same engine.  The call builds a   *)
(* new root; self.reward_history and self.solution_found are attributes of *)
(* the engine and keep what the calls before left in them.                 *)
(***************************************************************************)

\* the largest number of search_resolution calls after the first
MaxLaterCalls == 1

\* the iterations argument of a later call
LaterBudgets == {0, 1, 2}

\* what the call that just returned leaves to the caller and in the engine
EarlierCall ==
    [op             |-> "search_resolution",
     value          |-> result,
     solution_found |-> solution_found,
     reward_history |-> reward_history]

\* a later call that starts by clearing the flag
\* (self.solution_found = False at the top of search_resolution)
SearchAgain_clearing_flag ==
    /\ pc = "done"
    /\ unit_calls < MaxLaterCalls
    /\ \E budget \in LaterBudgets : iterations' = budget
    /\ LET root == MCTSNode(<<>>, 0)
       IN  nodes' = << [root EXCEPT !.untried_actions =
                           Populated(get_legal_actions(<<>>, root))] >>
    /\ i' = 0
    /\ node' = 0
    /\ child' = 0
    /\ reward' = 0
    /\ result' = NoResult
    /\ completed' = 0
    /\ selected_into' = {}
    /\ returned' = EarlierCall
    /\ unit_calls' = unit_calls + 1
    /\ solution_found' = FALSE
    /\ pc' = "select"
    /\ UNCHANGED <<scenario, max_rollout_depth, reward_history,
                   state_mgr, applier, shaper>>

\* search_resolution(budget) on an engine whose last call has returned:
\* root = MCTSNode(); root.untried_actions = get_legal_actions([], root)
SearchAgain ==
    /\ pc = "done"
    /\ unit_calls < MaxLaterCalls
    /\ \E budget \in LaterBudgets : iterations' = budget
    /\ LET root == MCTSNode(<<>>, 0)
       IN  nodes' = << [root EXCEPT !.untried_actions =
                           Populated(get_legal_actions(<<>>, root))] >>
    /\ i' = 0
    /\ node' = 0
    /\ child' = 0
    /\ reward' = 0
    /\ result' = NoResult
    /\ completed' = 0
    /\ selected_into' = {}
    /\ returned' = EarlierCall
    /\ unit_calls' = unit_calls + 1
    /\ pc' = "select"
    /\ UNCHANGED <<scenario, max_rollout_depth, reward_history,
                   solution_found, state_mgr, applier, shaper>>

NextRepeated ==
    \/ SearchStart
    \/ Select
    \/ Expand
    \/ Rollout
    \/ Backpropagate
    \/ CheckTermination
    \/ ReturnBest
    \/ SearchAgain

SpecRepeated == Init /\ [][NextRepeated]_vars

(***************************************************************************)
(* _best_child on its own.  The function reads node.visits, node.children  *)
(* and each child's visits and total_reward, whatever built these nodes:   *)
(* the parent is nodes[Root], its children the nodes after it.  A node     *)
(* without visits has received no reward.                                  *)
(***************************************************************************)

MaxUnitChildren == 3
MaxUnitVisits == 2

\* the total_reward values of a visited child
UnitRewards == {0 - One, 0, AlignmentBonus, One}

\* MCTSNode with the two counters that backpropagate sets
VisitedNode(parent, visits, total_reward) ==
    [MCTSNode(<<>>, parent) EXCEPT !.visits = visits,
                                   !.total_reward = total_reward]

\* the children a parent can be given: visits and total_reward of each
UnitChildren ==
    {VisitedNode(Root, 0, 0)}
        \cup {VisitedNode(Root, v, t) : v \in 1..MaxUnitVisits,
                                        t \in UnitRewards}

\* a parent of parent_visits visits whose children are kids
UnitTree(parent_visits, kids) ==
    <<[VisitedNode(0, parent_visits, 0) EXCEPT
           !.children = [k \in 1..Len(kids) |-> k + 1],
           !.untried_actions = Populated(<<>>)]>> \o kids

InitBestChild ==
    /\ scenario = CHOOSE s \in Scenarios : s.name = "empty"
    /\ max_rollout_depth = 0
    /\ iterations = 0
    /\ \E n \in 1..MaxUnitChildren :
           \E kids \in [1..n -> UnitChildren] :
               \E parent_visits \in 0..MaxUnitVisits :
                   nodes = UnitTree(parent_visits, kids)
    /\ reward_history = <<>>
    /\ solution_found = FALSE
    /\ pc = "best_child"
    /\ i = 0
    /\ node = 0
    /\ child = 0
    /\ reward = 0
    /\ result = NoResult
    /\ completed = 0
    /\ selected_into = {}
    /\ state_mgr = NoStateManager
    /\ returned = NoCall
    /\ unit_calls = 0
    /\ applier = NoApplier
    /\ shaper = NoShaper

\* node = self._best_child(parent)
BestChild ==
    /\ UNCHANGED unit_vars
    /\ pc = "best_child"
    /\ node' = best_child(nodes, Root)
    /\ pc' = "best_child_done"
    /\ UNCHANGED <<scenario, max_rollout_depth, iterations, nodes,
                   reward_history, solution_found, i, child, reward, result,
                   completed, selected_into>>

NextBestChild == BestChild

SpecBestChild == InitBestChild /\ [][NextBestChild]_vars

(***************************************************************************)
(* StateManager on its own: a state manager built from an initial state    *)
(* and called through apply_shift, get_relationships, get_state_snapshot   *)
(* and reset_to_initial, in any order.                                     *)
(***************************************************************************)

MaxUnitCalls == 3

\* an object that no state holds, and a direction that is none of the four
o9 == <<"9">>
sUp == <<"u", "p">>

\* 'On( 2 , 1 )', 'On(9,0)', 'On(1)', 'On(1,0,2)' and 'Near(1,0)'
OnSpaced21 == <<"O", "n", "(", " ", "2", " ", ",", " ", "1", " ", ")">>
On90 == <<"O", "n", "(", "9", ",", "0", ")">>
On1 == <<"O", "n", "(", "1", ")">>
On102 == <<"O", "n", "(", "1", ",", "0", ",", "2", ")">>
Near10 == <<"N", "e", "a", "r", "(", "1", ",", "0", ")">>

\* the declared predicates, and for those that read as On(U,L) their U and L
UnitPredicates ==
    { [text |-> On10, on |-> TRUE, upper |-> o1, lower |-> o0],
      [text |-> On20, on |-> TRUE, upper |-> o2, lower |-> o0],
      [text |-> OnSpaced21, on |-> TRUE, upper |-> o2, lower |-> o1],
      [text |-> On90, on |-> TRUE, upper |-> o9, lower |-> o0],
      [text |-> On1, on |-> FALSE, upper |-> o1, lower |-> o1],
      [text |-> On102, on |-> FALSE, upper |-> o1, lower |-> o0],
      [text |-> Near10, on |-> FALSE, upper |-> o1, lower |-> o0] }

\* {0: [0,0,0], 1: [8,0,0], 2: [0,5,60]} (mm) with the declared predicates
UnitInitialState ==
    [objects       |-> (o0 :> <<0, 0, 0>>) @@ (o1 :> <<8, 0, 0>>)
                           @@ (o2 :> <<0, 5, 60>>),
     relationships |-> {p.text : p \in UnitPredicates}]

\* alignment_threshold: 0.005 as in rollout, 0.05 as in test_state_manager
UnitThresholds == {RolloutAlignmentThreshold, 50}
\* the objects apply_shift is called on; block 2 is never shifted
UnitObjects == {o0, o1, o9}
UnitDirections == DirectionTokens \cup {sUp}
\* magnitudes in mm
UnitMagnitudes == {3, 10}

InitStateManager ==
    /\ scenario = CHOOSE s \in Scenarios : s.name = "empty"
    /\ max_rollout_depth = 0
    /\ iterations = 0
    /\ nodes = <<>>
    /\ reward_history = <<>>
    /\ solution_found = FALSE
    /\ pc = "state_manager"
    /\ i = 0
    /\ node = 0
    /\ child = 0
    /\ reward = 0
    /\ result = NoResult
    /\ completed = 0
    /\ selected_into = {}
    /\ \E alignment_threshold \in UnitThresholds :
           state_mgr = StateManager(UnitInitialState, alignment_threshold)
    /\ returned = NoCall
    /\ unit_calls = 0
    /\ applier = NoApplier
    /\ shaper = NoShaper

\* the variables of the engine, which a call of state_mgr leaves alone
engine_vars ==
    <<scenario, max_rollout_depth, iterations, nodes, reward_history,
      solution_found, pc, i, node, child, reward, result, completed,
      selected_into>>

\* state_mgr.apply_shift(obj, direction, magnitude)
ApplyShift ==
    /\ pc = "state_manager"
    /\ unit_calls < MaxUnitCalls
    /\ \E obj \in UnitObjects, direction \in UnitDirections,
          magnitude \in UnitMagnitudes :
           /\ state_mgr' =
                  apply_shift(state_mgr, obj, direction, magnitude).sm
           /\ returned' =
                  [op |-> "apply_shift", obj |-> obj,
                   direction |-> direction, magnitude |-> magnitude,
                   value |->
                       apply_shift(state_mgr, obj, direction, magnitude).ok]
    /\ unit_calls' = unit_calls + 1
    /\ UNCHANGED <<engine_vars, applier, shaper>>

\* a get_relationships that keeps its result as the declared set
\* (self.relationships = current_relationships)
GetRelationships_storing ==
    /\ pc = "state_manager"
    /\ unit_calls < MaxUnitCalls
    /\ state_mgr' = [state_mgr EXCEPT
                        !.relationships = get_relationships(state_mgr)]
    /\ returned' = [op |-> "get_relationships",
                    value |-> get_relationships(state_mgr),
                    repeated |-> returned.op = "get_relationships"]
    /\ unit_calls' = unit_calls + 1
    /\ UNCHANGED <<engine_vars, applier, shaper>>

\* state_mgr.get_relationships(); `repeated` tells that the call before
\* was a get_relationships too
GetRelationships ==
    /\ pc = "state_manager"
    /\ unit_calls < MaxUnitCalls
    /\ state_mgr' = state_mgr
    /\ returned' = [op |-> "get_relationships",
                    value |-> get_relationships(state_mgr),
                    repeated |-> returned.op = "get_relationships"]
    /\ unit_calls' = unit_calls + 1
    /\ UNCHANGED <<engine_vars, applier, shaper>>

\* state_mgr.get_state_snapshot()
GetStateSnapshot ==
    /\ pc = "state_manager"
    /\ unit_calls < MaxUnitCalls
    /\ state_mgr' = state_mgr
    /\ returned' = [op |-> "get_state_snapshot",
                    value |-> get_state_snapshot(state_mgr)]
    /\ unit_calls' = unit_calls + 1
    /\ UNCHANGED <<engine_vars, applier, shaper>>

\* state_mgr.reset_to_initial(); `moved` tells that an object stood away
\* from its initial position when the call was made
ResetToInitial ==
    /\ pc = "state_manager"
    /\ unit_calls < MaxUnitCalls
    /\ state_mgr' = reset_to_initial(state_mgr)
    /\ returned' = [op |-> "reset_to_initial",
                    moved |-> state_mgr.objects # state_mgr.initial_objects]
    /\ unit_calls' = unit_calls + 1
    /\ UNCHANGED <<engine_vars, applier, shaper>>

NextStateManager ==
    \/ ApplyShift
    \/ GetRelationships
    \/ GetStateSnapshot
    \/ ResetToInitial

SpecStateManager == InitStateManager /\ [][NextStateManager]_vars

(***************************************************************************)
(* InterventionApplier on its own: an applier built over a state manager   *)
(* and called through apply, as test_intervention_applier does.            *)
(***************************************************************************)

\* ' right , 0.003 ', 'forward,-0.003', 'left,0.01,0',
\* 'leftover,0.01', 'pick,left', 'left', 'pick-top', 'place-top, 2',
\* 'up,0.01' and ''
aSpacedRight == <<" ">> \o sRight \o <<" ", ",", " ", "0", ".", "0", "0", "3", " ">>
aForwardNegative == sForward \o <<",", "-", "0", ".", "0", "0", "3">>
aLeftThree == aLeft \o <<",", "0">>
aLeftover == sLeft \o <<"o", "v", "e", "r", ",", "0", ".", "0", "1">>
aPickLeft == sPick \o <<",">> \o sLeft
aLeftOnly == sLeft
aPickTop == sPick \o <<"-", "t", "o", "p">>
aPlaceTop2 == sPlace \o <<"-", "t", "o", "p", ",", " ", "2">>
aUp == sUp \o <<",", "0", ".", "0", "1">>
aEmpty == <<>>

\* an action string and what it reads as: the number of its comma-separated
\* fields, whether the first field, trimmed, is one of the four directions,
\* whether the second field is a number, and whether the string holds a
\* comma, a direction token, 'pick' or 'place'
Descriptor(text, fields, direction, number, comma, token, pick) ==
    [text |-> text, fields |-> fields, direction |-> direction,
     number |-> number, comma |-> comma, token |-> token, pick |-> pick]

UnitDescriptors ==
    { Descriptor(aLeft, 2, TRUE, TRUE, TRUE, TRUE, FALSE),
      Descriptor(aBack, 2, TRUE, TRUE, TRUE, TRUE, FALSE),
      Descriptor(aSpacedRight, 2, TRUE, TRUE, TRUE, TRUE, FALSE),
      Descriptor(aForwardNegative, 2, TRUE, TRUE, TRUE, TRUE, FALSE),
      Descriptor(aLeftAbc, 2, TRUE, FALSE, TRUE, TRUE, FALSE),
      Descriptor(aLeftThree, 3, TRUE, TRUE, TRUE, TRUE, FALSE),
      Descriptor(aLeftover, 2, FALSE, TRUE, TRUE, TRUE, FALSE),
      Descriptor(aPickLeft, 2, FALSE, FALSE, TRUE, TRUE, TRUE),
      Descriptor(aLeftOnly, 1, TRUE, FALSE, FALSE, TRUE, FALSE),
      Descriptor(aSwap12, 2, FALSE, TRUE, TRUE, FALSE, FALSE),
      Descriptor(aPickTop, 1, FALSE, FALSE, FALSE, FALSE, TRUE),
      Descriptor(aPlaceTop2, 2, FALSE, TRUE, TRUE, FALSE, TRUE),
      Descriptor(aUp, 2, FALSE, TRUE, TRUE, FALSE, FALSE),
      Descriptor(aEmpty, 1, FALSE, FALSE, FALSE, FALSE, FALSE) }

\* the obj argument of apply: a block, an absent object and "Swap"
ApplierObjects == {o1, o9, sSwap}
\* shift_reward: 0.0 as in rollout and test_intervention_applier, and 0.25
UnitShiftRewards == {RolloutShiftReward, AlignmentBonus}

\* the tuple (success, reward_delta) that apply returns
ApplyResult(out) == <<out.success, out.reward>>

InitApplier ==
    /\ scenario = CHOOSE s \in Scenarios : s.name = "empty"
    /\ max_rollout_depth = 0
    /\ iterations = 0
    /\ nodes = <<>>
    /\ reward_history = <<>>
    /\ solution_found = FALSE
    /\ pc = "applier"
    /\ i = 0
    /\ node = 0
    /\ child = 0
    /\ reward = 0
    /\ result = NoResult
    /\ completed = 0
    /\ selected_into = {}
    /\ state_mgr = StateManager(UnitInitialState, RolloutAlignmentThreshold)
    /\ returned = NoCall
    /\ unit_calls = 0
    /\ \E shift_reward \in UnitShiftRewards :
           applier = [shift_reward |-> shift_reward]
    /\ shaper = NoShaper

\* success, reward = applier.apply(obj, action); `handler` is the branch
\* whose message the call printed
Apply ==
    /\ pc = "applier"
    /\ unit_calls < MaxUnitCalls
    /\ \E obj \in ApplierObjects, d \in UnitDescriptors :
           /\ state_mgr' =
                  apply(state_mgr, applier.shift_reward, obj, d.text).sm
           /\ returned' =
                  [op |-> "apply", obj |-> obj, action |-> d.text,
                   value |->
                       ApplyResult(apply(state_mgr, applier.shift_reward,
                                         obj, d.text)),
                   handler |->
                       apply(state_mgr, applier.shift_reward,
                             obj, d.text).handler]
    /\ unit_calls' = unit_calls + 1
    /\ UNCHANGED <<engine_vars, applier, shaper>>

NextApplier == Apply

SpecApplier == InitApplier /\ [][NextApplier]_vars

(***************************************************************************)
(* RewardShaper on its own: a shaper built from a goal, a shift bonus and  *)
(* a depth penalty, and called through step_reward and final_reward, as    *)
(* test_reward_shaper does.                                                *)
(***************************************************************************)

\* the longest list of interventions given to final_reward
MaxUnitInterventions == 3

\* goal_symbolic_set: the empty goal, one predicate, two predicates
UnitGoals == {{}, {On10}, {On10, On20}}
\* shift_bonus: 0.0 as in test_reward_shaper, and 0.25
UnitShiftBonuses == {0, AlignmentBonus}
\* depth_penalty: 0.0 as in test_reward_shaper, 0.05 and 0.0625
UnitDepthPenalties == {0, 4, 5}
\* the relationship sets given as prev_rels, curr_rels and final_rels
UnitRelationshipSets == {{}, {On10}, {On10, On20}, {Near10}}
\* the action strings given to step_reward
ShaperDescriptors ==
    {d \in UnitDescriptors :
        d.text \in {aSpacedRight, aPickLeft, aLeftOnly, aPickTop, aEmpty}}

\* a list of n (object, action) tuples
UnitInterventions(n) ==
    [k \in 1..n |-> IF k % 2 = 1 THEN <<o1, aLeft>> ELSE <<o2, aRight>>]

\* no final_reward call to compare with
NoFinalReward == [op |-> "none", final_rels |-> {}, length |-> 0, value |-> 0]

\* the final_reward call that `returned` holds, if it holds one
LastFinalReward ==
    IF returned.op = "final_reward"
    THEN [op |-> "final_reward", final_rels |-> returned.final_rels,
          length |-> Len(returned.interventions), value |-> returned.value]
    ELSE NoFinalReward

InitRewardShaper ==
    /\ scenario = CHOOSE s \in Scenarios : s.name = "empty"
    /\ max_rollout_depth = 0
    /\ iterations = 0
    /\ nodes = <<>>
    /\ reward_history = <<>>
    /\ solution_found = FALSE
    /\ pc = "shaper"
    /\ i = 0
    /\ node = 0
    /\ child = 0
    /\ reward = 0
    /\ result = NoResult
    /\ completed = 0
    /\ selected_into = {}
    /\ state_mgr = NoStateManager
    /\ returned = NoCall
    /\ unit_calls = 0
    /\ applier = NoApplier
    /\ \E goal \in UnitGoals, shift_bonus \in UnitShiftBonuses,
          depth_penalty \in UnitDepthPenalties :
           shaper = [goal |-> goal, shift_bonus |-> shift_bonus,
                     depth_penalty |-> depth_penalty]

\* shaper.step_reward(prev_rels, curr_rels, action)
StepReward ==
    /\ pc = "shaper"
    /\ unit_calls < MaxUnitCalls
    /\ \E prev_rels \in UnitRelationshipSets,
          curr_rels \in UnitRelationshipSets, d \in ShaperDescriptors :
           returned' = [op |-> "step_reward", prev_rels |-> prev_rels,
                        curr_rels |-> curr_rels, action |-> d.text,
                        value |->
                            step_reward(shaper, prev_rels, curr_rels, d.text)]
    /\ shaper' = shaper
    /\ unit_calls' = unit_calls + 1
    /\ UNCHANGED <<engine_vars, state_mgr, applier>>

\* shaper.final_reward(final_rels, interventions); `previous` is the
\* final_reward call made just before this one, if there was one
FinalReward ==
    /\ pc = "shaper"
    /\ unit_calls < MaxUnitCalls
    /\ \E final_rels \in UnitRelationshipSets, n \in 0..MaxUnitInterventions :
           returned' = [op |-> "final_reward", final_rels |-> final_rels,
                        interventions |-> UnitInterventions(n),
                        value |->
                            final_reward(shaper, final_rels,
                                         UnitInterventions(n)),
                        previous |-> LastFinalReward]
    /\ shaper' = shaper
    /\ unit_calls' = unit_calls + 1
    /\ UNCHANGED <<engine_vars, state_mgr, applier>>

NextRewardShaper ==
    \/ StepReward
    \/ FinalReward

SpecRewardShaper == InitRewardShaper /\ [][NextRewardShaper]_vars

(***************************************************************************)
(* expand and backpropagate on a tree whose nodes hold violations.  No     *)
(* line of the engine adds to local_violations, so the trees are built by  *)
(* expand and then given violation sets, as a producer outside the engine  *)
(* would; expand and backpropagate are then called on any of their nodes.  *)
(***************************************************************************)

\* the sets a producer has put into a node's local_violations
TreeViolationSets ==
    {{}, {<<o2, aForward>>}, {<<o1, aLeft>>, <<o2, aBack>>}}

\* the rewards given to backpropagate
TreeRewards == {0, One}

\* the root as search_resolution builds it
TreeRoot ==
    << [MCTSNode(<<>>, 0) EXCEPT !.untried_actions =
           Populated(get_legal_actions(<<>>, MCTSNode(<<>>, 0)))] >>

\* the root alone; the root expanded once; a chain of a child and a
\* grandchild; the root expanded twice
TreeShapes ==
    { TreeRoot,
      expand(TreeRoot, Root).nodes,
      expand(expand(TreeRoot, Root).nodes, 2).nodes,
      expand(expand(TreeRoot, Root).nodes, Root).nodes }

\* the tree ns with node k holding the violations v[k]
WithViolations(ns, v) ==
    [k \in 1..Len(ns) |-> [ns[k] EXCEPT !.local_violations = v[k]]]

InitTree ==
    /\ scenario = CHOOSE s \in Scenarios : s.name = "two"
    /\ max_rollout_depth = 0
    /\ iterations = 0
    /\ \E ns \in TreeShapes :
           \E v \in [1..Len(ns) -> TreeViolationSets] :
               nodes = WithViolations(ns, v)
    /\ reward_history = <<>>
    /\ solution_found = FALSE
    /\ pc = "tree"
    /\ i = 0
    /\ node = 0
    /\ child = 0
    /\ reward = 0
    /\ result = NoResult
    /\ completed = 0
    /\ selected_into = {}
    /\ state_mgr = NoStateManager
    /\ returned = NoCall
    /\ unit_calls = 0
    /\ applier = NoApplier
    /\ shaper = NoShaper

\* the variables that a call on the tree leaves alone
tree_frame ==
    <<scenario, max_rollout_depth, iterations, reward_history,
      solution_found, pc, i, node, child, reward, result, completed,
      selected_into, state_mgr, applier, shaper>>

\* child = self.expand(n), for a node n of the tree
TreeExpand ==
    /\ pc = "tree"
    /\ unit_calls < MaxUnitCalls
    /\ \E n \in 1..Len(nodes) :
           /\ nodes' = expand(nodes, n).nodes
           /\ returned' = [op |-> "expand", node |-> n,
                           child |-> expand(nodes, n).child]
    /\ unit_calls' = unit_calls + 1
    /\ UNCHANGED tree_frame

\* self.backpropagate(n, r), for a node n of the tree
TreeBackpropagate ==
    /\ pc = "tree"
    /\ unit_calls < MaxUnitCalls
    /\ \E n \in 1..Len(nodes), r \in TreeRewards :
           /\ nodes' = backpropagate(nodes, n, r)
           /\ returned' = [op |-> "backpropagate", node |-> n, reward |-> r]
    /\ unit_calls' = unit_calls + 1
    /\ UNCHANGED tree_frame

NextTree ==
    \/ TreeExpand
    \/ TreeBackpropagate

SpecTree == InitTree /\ [][NextTree]_vars

(***************************************************************************)
(* Properties                                                              *)
(***************************************************************************)

Returned == pc = "done"
\* search_resolution returned from inside the loop (return ..., i)
ReturnedEarly == Returned /\ result.iterations < iterations
\* search_resolution returned after the loop (return ..., iterations)
ReturnedAtBudget == Returned /\ result.iterations = iterations
LastEntry == reward_history[Len(reward_history)]

\* C1 as stated: in the end-to-end scenario the very first rollout reaches
\* the termination threshold, and the search returns with success at
\* iteration 0 with a solution of at most one intervention.
C1_EndToEndSuccessAtIterationZero ==
    (scenario.name = "e2e" /\ iterations >= 1) =>
        /\ reward_history # <<>> =>
               reward_history[1].reward >= termination_threshold
        /\ Returned =>
               /\ solution_found
               /\ result.iterations = 0
               /\ Len(result.interventions) <= 1

\* C1, amended: in the end-to-end scenario the rollouts use the alignment
\* threshold 0.005 of rollout; the first rollout is that of the child
\* ('1', 'left,0.01'), its reward is -0.10, no rollout reaches the
\* termination threshold, and the search returns at the end of its budget,
\* without success, a sequence of exactly one intervention.
C1_EndToEndExhaustsBudget ==
    (scenario.name = "e2e" /\ iterations >= 1) =>
        /\ reward_history # <<>> =>
               /\ reward_history[1].interventions = << <<o1, aLeft>> >>
               /\ reward_history[1].reward = 0 - 8
        /\ \A k \in 1..Len(reward_history) :
               reward_history[k].reward < termination_threshold
        /\ ~solution_found
        /\ Returned =>
               /\ result.iterations = iterations
               /\ Len(result.interventions) = 1

\* C1's case: a search of the end-to-end scenario that ran rollouts returned
C1_Witness ==
    /\ scenario.name = "e2e"
    /\ Returned
    /\ Len(reward_history) >= 2

\* a rollout whose reward reached the termination threshold is recorded
SuccessLogged ==
    \E k \in 1..Len(reward_history) :
        reward_history[k].reward >= termination_threshold

\* C2, the states: an early return is a return with success; the rollout
\* that reached the threshold is the last one run and the first to reach
\* it, the result is the rolled-out node's sequence with the index of the
\* current iteration, and that rollout has been backpropagated; conversely,
\* once a rollout has reached the threshold no other one is run, and the
\* search can only return early.
C2_EarlyReturnState ==
    /\ ReturnedEarly =>
           /\ solution_found
           /\ reward_history # <<>>
           /\ LastEntry.reward >= termination_threshold
           /\ \A k \in 1..(Len(reward_history) - 1) :
                  reward_history[k].reward < termination_threshold
           /\ SubSeq(LastEntry.interventions, 1,
                     Len(nodes[child].interventions))
                  = nodes[child].interventions
           /\ result.interventions = nodes[child].interventions
           /\ result.iterations = i
           /\ nodes[child].visits >= 1
           /\ nodes[Root].visits = Len(reward_history)
    /\ SuccessLogged =>
           /\ LastEntry.reward >= termination_threshold
           /\ pc \in {"backpropagate", "check", "done"}
           /\ Returned => ReturnedEarly
    /\ (Returned /\ ~SuccessLogged) => ReturnedAtBudget /\ ~solution_found

\* C2: on a fresh engine the search returns early at iteration i exactly
\* when the rollout of iteration i is the first one whose reward is at
\* least termination_threshold; it then returns the rolled-out node's
\* sequence together with i, after backpropagating that rollout, and runs
\* no further iteration.
C2_EarlyReturnIffFirstSuccess ==
    [][/\ C2_EarlyReturnState'
       /\ SuccessLogged =>
              /\ i' = i
              /\ reward_history' = reward_history
              /\ pc' \in {"check", "done"}]_vars

\* C2's case: an early return after an earlier rollout below the threshold
C2_Witness ==
    /\ ReturnedEarly
    /\ result.iterations >= 1
    /\ Len(reward_history) >= 2

\* the average of root child j is at most that of root child k
AverageAtMost(j, k) ==
    Average(nodes[nodes[Root].children[j]]).num
        * Average(nodes[nodes[Root].children[k]]).den
    <= Average(nodes[nodes[Root].children[k]]).num
        * Average(nodes[nodes[Root].children[j]]).den

\* C3: when the budget is exhausted without success the search returns
\* (S, iterations), S being the sequence of the direct child of the root
\* with the highest average reward, the earliest-created one among equal
\* averages, and the empty sequence when the root has no child.
C3_BudgetExhaustedReturnsBestChild ==
    (Returned /\ ~solution_found) =>
        /\ result.iterations = iterations
        /\ nodes[Root].children = <<>> => result.interventions = <<>>
        /\ nodes[Root].children # <<>> =>
               \E k \in 1..Len(nodes[Root].children) :
                   /\ result.interventions
                          = nodes[nodes[Root].children[k]].interventions
                   /\ \A j \in 1..Len(nodes[Root].children) :
                          AverageAtMost(j, k)
                   /\ \A j \in 1..(k - 1) : ~AverageAtMost(k, j)

\* C3's case: the budget is exhausted, the best average is that of two
\* children of the root, and the earlier of the two is returned
C3_Witness ==
    /\ Returned
    /\ ~solution_found
    /\ \E j, k \in 1..Len(nodes[Root].children) :
           /\ j < k
           /\ AverageAtMost(j, k)
           /\ AverageAtMost(k, j)
           /\ \A m \in 1..Len(nodes[Root].children) : AverageAtMost(m, j)
           /\ result.interventions
                  = nodes[nodes[Root].children[j]].interventions

\* the root has neither untried actions nor children after its untried
\* list is filled: expand returns the root unchanged
RootExhausted ==
    /\ nodes[Root].children = <<>>
    /\ IF nodes[Root].untried_actions.init
       THEN nodes[Root].untried_actions.list = <<>>
       ELSE get_legal_actions(<<>>, nodes[Root]) = <<>>

\* C4: when the root has no untried action and no children the iteration
\* is skipped without rollout or backpropagation; with an empty
\* intervention space the search returns ([], iterations), no rollout is
\* run and the root's visits stay 0.
C4_ExhaustedRootSkipsIteration ==
    [][/\ (pc = "expand" /\ RootExhausted) =>
              /\ pc' = "select"
              /\ i' = i + 1
              /\ Len(nodes') = 1
              /\ nodes'[Root].visits = nodes[Root].visits
              /\ nodes'[Root].total_reward = nodes[Root].total_reward
              /\ reward_history' = reward_history
              /\ completed' = completed
       /\ (Candidates(intervention_space) = <<>> /\ pc' # "init") =>
              /\ reward_history' = <<>>
              /\ Len(nodes') = 1
              /\ nodes'[Root].visits = 0
              /\ pc' \notin {"rollout", "backpropagate", "check"}
              /\ pc' = "done" => result' = [interventions |-> <<>>,
                                             iterations |-> iterations]]_vars

\* C4's case: a search over an empty intervention space returned after
\* skipping several iterations
C4_Witness ==
    /\ Candidates(intervention_space) = <<>>
    /\ Returned
    /\ iterations >= 2
    /\ i = iterations
    /\ result.interventions = <<>>

\* C5: after N completed iterations, those that ran a rollout and a
\* backpropagation, the root's visits equal N.
C5_RootVisitsCountCompletedIterations ==
    (pc \in {"select", "expand", "rollout", "backpropagate", "done"}) =>
        nodes[Root].visits = completed

\* C5's case: a search returned after three completed iterations or more
C5_Witness ==
    /\ Returned
    /\ completed >= 3
    /\ nodes[Root].visits >= 3

\* the sum of the visits of the nodes ns[children[k..]]
RECURSIVE SumVisitsFrom(_, _, _)
SumVisitsFrom(ns, children, k) ==
    IF k > Len(children) THEN 0
    ELSE ns[children[k]].visits + SumVisitsFrom(ns, children, k + 1)

\* the sum of the visits over the direct children of the root
SumChildVisits == SumVisitsFrom(nodes, nodes[Root].children, 1)

\* C6 as stated: the sum of visits over all direct children of the root
\* equals the number of distinct root children that were ever selected
\* into.
C6_ChildVisitsCountDistinctChildren ==
    (pc \in {"select", "done"}) =>
        SumChildVisits = Cardinality(selected_into)

\* C6, amended: the sum of visits over all direct children of the root
\* equals the number N of completed iterations, every completed iteration
\* adding one visit to exactly one child of the root; the number of
\* distinct children of the root ever selected into is the number of
\* visited children, which is at most that sum.
C6_ChildVisitsCountCompletedIterations ==
    (pc \in {"select", "done"}) =>
        /\ SumChildVisits = completed
        /\ selected_into
               = {c \in 1..Len(nodes) :
                      nodes[c].parent = Root /\ nodes[c].visits > 0}
        /\ Cardinality(selected_into) <= SumChildVisits

\* C6's case: a search returned with a child of the root visited twice and
\* two children of the root selected into
C6_Witness ==
    /\ Returned
    /\ Cardinality(selected_into) >= 2
    /\ \E c \in selected_into : nodes[c].visits >= 2
    /\ SumChildVisits > Cardinality(selected_into)

\* a is n or an ancestor of n: a node of the path from n up to the root
RECURSIVE OnPathToRoot(_, _, _)
OnPathToRoot(ns, a, n) ==
    IF n = 0 THEN FALSE
    ELSE IF a = n THEN TRUE
    ELSE OnPathToRoot(ns, a, ns[n].parent)

\* the number of interventions that lead from the root to n
Depth(n) == Len(nodes[n].interventions)

\* C7: backpropagate(node, r) increments visits by exactly 1 and adds r to
\* total_reward on exactly the nodes of the path from node up to and
\* including the root, and leaves visits, total_reward, children, untried
\* actions and intervention sequences of every node off that path
\* unchanged.
C7_BackpropagateFrame ==
    [][pc = "backpropagate" =>
           /\ Len(nodes') = Len(nodes)
           /\ OnPathToRoot(nodes, Root, child)
           /\ \A n \in 1..Len(nodes) :
                  IF OnPathToRoot(nodes, n, child)
                  THEN /\ nodes'[n].visits = nodes[n].visits + 1
                       /\ nodes'[n].total_reward
                              = nodes[n].total_reward + reward
                  ELSE /\ nodes'[n].visits = nodes[n].visits
                       /\ nodes'[n].total_reward = nodes[n].total_reward
                       /\ nodes'[n].children = nodes[n].children
                       /\ nodes'[n].untried_actions
                              = nodes[n].untried_actions
                       /\ nodes'[n].interventions
                              = nodes[n].interventions]_vars

\* C7's case: a rollout from a node two levels below the root, of a reward
\* other than 0, has been backpropagated in a tree that has a visited node
\* off the path and a total_reward other than 0 on the path
C7_Witness ==
    /\ pc = "check"
    /\ Depth(child) >= 2
    /\ reward # 0
    /\ nodes[Root].total_reward # reward
    /\ \E n \in 1..Len(nodes) :
           /\ ~OnPathToRoot(nodes, n, child)
           /\ nodes[n].visits >= 1

\* C8: select, started at the root of any reachable tree, returns a node,
\* never None, that has a non-empty untried-action list or has no
\* children; it stops at the first node of its descent that has an untried
\* action, so that every node above the returned one has an empty
\* untried-action list; a node without children and without untried
\* actions is returned as it is.
C8_SelectStopsAtFirstUntried ==
    [][pc = "select" /\ pc' = "expand" =>
           /\ node' \in 1..Len(nodes')
           /\ Len(nodes') = Len(nodes)
           /\ \/ Truthy(nodes'[node'].untried_actions)
              \/ nodes'[node'].children = <<>>
           /\ \A a \in 1..Len(nodes') :
                  (a # node' /\ OnPathToRoot(nodes', a, node')) =>
                      /\ ~Truthy(nodes[a].untried_actions)
                      /\ ~Truthy(nodes'[a].untried_actions)
                      /\ nodes'[a].children # <<>>
           /\ \A n \in 1..Len(nodes) :
                  /\ nodes'[n].visits = nodes[n].visits
                  /\ nodes'[n].children = nodes[n].children
                  /\ nodes'[n].interventions = nodes[n].interventions]_vars

\* C8's case: a descent below the root has ended on a node that has
\* neither children nor untried actions
C8_Witness ==
    /\ pc = "expand"
    /\ node # Root
    /\ nodes[node].children = <<>>
    /\ ~Truthy(nodes[node].untried_actions)

\* the last intervention of each of the nodes ns[children[k..]]
RECURSIVE TriedFrom(_, _, _)
TriedFrom(ns, children, k) ==
    IF k > Len(children) THEN <<>>
    ELSE <<ns[children[k]].interventions[Len(ns[children[k]].interventions)]>>
         \o TriedFrom(ns, children, k + 1)

\* the objects of the interventions of a sequence
ObjectsOf(interventions) ==
    {interventions[k][1] : k \in 1..Len(interventions)}

\* the pair is one a node of these interventions and violations may try
LegalFor(nd, pair) ==
    /\ pair \notin nd.local_violations
    /\ pair[1] = sSwap \/ pair[1] \notin ObjectsOf(nd.interventions)

\* C10: the untried-action list a node is populated with, here the actions
\* its children tried followed by those still untried, is exactly the list
\* of the (object, action) pairs of the intervention space, in enumeration
\* order, whose pair is not in the node's local_violations and whose
\* object, unless it is "Swap", does not occur in the node's intervention
\* sequence; and in every node no object other than "Swap" occurs twice in
\* the intervention sequence.
C10_LegalActionRule ==
    \A n \in 1..Len(nodes) :
        /\ nodes[n].untried_actions.init =>
               TriedFrom(nodes, nodes[n].children, 1)
                   \o nodes[n].untried_actions.list
               = SelectSeq(Candidates(intervention_space),
                           LAMBDA pair : LegalFor(nodes[n], pair))
        /\ ~nodes[n].untried_actions.init =>
               /\ nodes[n].untried_actions.list = <<>>
               /\ nodes[n].children = <<>>
        /\ \A j, k \in 1..Len(nodes[n].interventions) :
               (j # k /\ nodes[n].interventions[j][1]
                             = nodes[n].interventions[k][1])
                   => nodes[n].interventions[j][1] = sSwap

\* C10's case: a populated node whose sequence holds "Swap" twice, and a
\* populated node below the root from whose list a pair of the space is
\* left out because its object was intervened on
C10_Witness ==
    /\ \E n \in 1..Len(nodes) :
           /\ nodes[n].untried_actions.init
           /\ \E j, k \in 1..Len(nodes[n].interventions) :
                  /\ j < k
                  /\ nodes[n].interventions[j][1] = sSwap
                  /\ nodes[n].interventions[k][1] = sSwap
    /\ \E n \in 1..Len(nodes) :
           /\ nodes[n].untried_actions.init
           /\ nodes[n].children # <<>>
           /\ \E c \in 1..Len(Candidates(intervention_space)) :
                  /\ Candidates(intervention_space)[c][1] # sSwap
                  /\ Candidates(intervention_space)[c][1]
                         \in ObjectsOf(nodes[n].interventions)

\* the parent nodes[Root] has a child with visits > 0
HasVisitedChild ==
    \E k \in 1..Len(nodes[Root].children) :
        nodes[nodes[Root].children[k]].visits > 0

\* the parent nodes[Root] has a child with visits = 0
HasUnvisitedChild ==
    \E k \in 1..Len(nodes[Root].children) :
        nodes[nodes[Root].children[k]].visits = 0

UntriedAtExpand ==
    IF nodes[node].untried_actions.init
    THEN nodes[node].untried_actions.list
    ELSE get_legal_actions(nodes[node].interventions, nodes[node])

\* the actions the children of n tried, then those n has not tried, are
\* the legal actions of n, none of them twice
TriedThenUntriedIsLegal(ns, n) ==
    LET all == TriedFrom(ns, ns[n].children, 1)
                   \o ns[n].untried_actions.list
    IN  /\ all = get_legal_actions(ns[n].interventions, ns[n])
        /\ \A j, k \in 1..Len(all) : all[j] = all[k] => j = k

\* C11: expand removes the first untried action, creates one child whose
\* sequence is the parent's sequence with that action appended and whose
\* parent link is the expanded node, and appends it as the last child,
\* changing no other node; so at every node with a populated untried list
\* the last actions of its children in creation order followed by the
\* remaining untried list equal the node's legal-action list, and no
\* action is expanded twice.
C11_ExpandTakesFirstUntriedOnce ==
    [][/\ (pc = "expand" /\ UntriedAtExpand # <<>>) =>
              /\ Len(nodes') = Len(nodes) + 1
              /\ child' = Len(nodes')
              /\ nodes'[child'] =
                     MCTSNode(Append(nodes[node].interventions,
                                     Head(UntriedAtExpand)), node)
              /\ nodes'[node] =
                     [nodes[node] EXCEPT
                         !.untried_actions =
                             Populated(Tail(UntriedAtExpand)),
                         !.children = Append(@, child')]
              /\ \A n \in 1..Len(nodes) : n # node => nodes'[n] = nodes[n]
       /\ \A n \in 1..Len(nodes') :
              nodes'[n].untried_actions.init
                  => TriedThenUntriedIsLegal(nodes', n)]_vars

\* C11's case: a node was expanded for the second time, after which an
\* untried action is still left
C11_Witness ==
    /\ pc = "rollout"
    /\ Len(nodes[node].children) >= 2
    /\ nodes[node].children[Len(nodes[node].children)] = child
    /\ nodes[node].untried_actions.list # <<>>

\* the scenario the engine was constructed with
ConstructedWith == CHOOSE s \in Scenarios : s.name = scenario.name

\* the entries and returned values a rollout of nd can produce on an engine
\* whose initial_state is state0
EntriesFrom(state0, nd) ==
    {[interventions |-> out.interventions, reward |-> out.reward] :
         out \in rollout_from(state0, nd)}

\* C12: every rollout works on a private copy of the initial state: a
\* rollout leaves the engine's initial state, object positions and declared
\* relationships, unchanged, so that after any sequence of rollouts and
\* iterations it is the one the engine was constructed with, and the
\* outcomes a rollout of any node of the tree can have are those it has on
\* an engine that has run no rollout.
C12_RolloutsAreIndependent ==
    [][/\ initial_state' = ConstructedWith.initial_state
       /\ \A n \in 1..Len(nodes') :
              EntriesFrom(initial_state', nodes'[n])
                  = EntriesFrom(ConstructedWith.initial_state, nodes'[n])
       /\ pc = "rollout" =>
              [interventions |-> reward_history'[Len(reward_history')]
                                     .interventions,
               reward |-> reward']
                  \in EntriesFrom(ConstructedWith.initial_state,
                                  nodes[child])]_vars

\* C12's case: a node whose rollout shifts an object has been rolled out
\* once more, with the outcome of its earlier rollout
C12_Witness ==
    /\ pc = "backpropagate"
    /\ Len(reward_history) >= 3
    /\ \E k \in 1..(Len(reward_history) - 1) :
           /\ reward_history[k] = LastEntry
           /\ LastEntry.interventions # <<>>
    /\ initial_state = ConstructedWith.initial_state

\* the state of a rollout of nd once its prefix is replayed (line 348)
PrefixReplayed(nd) ==
    ReplayFrom([sm |-> StateManager(initial_state, RolloutAlignmentThreshold),
                prev_rels |-> initial_state.relationships,
                shaped_reward |-> 0],
               nd.interventions, 1)

\* shaped_reward where the rollout tests it against the threshold: the
\* step rewards of the prefix, the final reward of the prefix and the
\* alignment bonus
AccumulatedOf(nd, st1) ==
    st1.shaped_reward
    + final_reward(reward_shaper, get_relationships(st1.sm), nd.interventions)
    + misalignment_bonus(st1.sm, nd.interventions)

AccumulatedAfterPrefix(nd) == AccumulatedOf(nd, PrefixReplayed(nd))

HistoryReplayed(rollout_history) ==
    ReplayFrom([sm |-> StateManager(initial_state, RolloutAlignmentThreshold),
                prev_rels |-> initial_state.relationships,
                shaped_reward |-> 0],
               rollout_history, 1)

\* the sum over the steps of rollout_history of step_reward and the
\* applier's reward, the bonus after the prefix of nd, and the final
\* reward of the final relationships and rollout_history, once
ComposedOf(nd, rollout_history, st1, st2) ==
    st2.shaped_reward
    + misalignment_bonus(st1.sm, nd.interventions)
    + final_reward(reward_shaper, get_relationships(st2.sm), rollout_history)

ComposedReward(nd, rollout_history) ==
    ComposedOf(nd, rollout_history, PrefixReplayed(nd),
               HistoryReplayed(rollout_history))

\* C14 as stated: for a rollout that does not exit early, the returned
\* reward is the sum over every prefix and suffix step of step_reward and
\* the applier's reward, plus the alignment bonus evaluated after the
\* prefix, plus final_reward(final relationships, prefix + suffix) added
\* exactly once.
C14_RewardHoldsFinalRewardOnce ==
    (pc = "backpropagate"
         /\ AccumulatedAfterPrefix(nodes[child]) < termination_threshold)
        => reward = ComposedReward(nodes[child], LastEntry.interventions)

\* the elements of a list
Elements(list) == {list[k] : k \in 1..Len(list)}

\* the history a rollout of the node of sequence prefix recorded obeys the
\* bound and the legality rule of the suffix
SuffixWithinRules(nd, rollout_history) ==
    /\ Len(rollout_history) >= Len(nd.interventions)
    /\ SubSeq(rollout_history, 1, Len(nd.interventions)) = nd.interventions
    /\ Len(rollout_history) - Len(nd.interventions)
           <= Max(0, max_rollout_depth - Len(nd.interventions))
    /\ Len(rollout_history) <= Max(Len(nd.interventions), max_rollout_depth)
    /\ \A k \in (Len(nd.interventions) + 1)..Len(rollout_history) :
           rollout_history[k]
               \in Elements(get_legal_actions(
                                SubSeq(rollout_history, 1, k - 1), nd))
    /\ \A j, k \in 1..Len(rollout_history) :
           (j # k /\ rollout_history[j][1] = rollout_history[k][1])
               => rollout_history[j][1] = sSwap

\* C15: a rollout appends at most max(0, max_rollout_depth - prefix length)
\* suffix actions, each one a legal action of the history built so far, so
\* that the recorded history repeats no object other than "Swap"; unless
\* it exited early, it stops the suffix before that bound only when no
\* legal action remains; the recorded history has the node's sequence as
\* prefix and a length of at most max(prefix length, max_rollout_depth).
C15_SuffixBoundAndLegality ==
    [][pc = "rollout" =>
           /\ SuffixWithinRules(nodes[child],
                                reward_history'[Len(reward_history')]
                                    .interventions)
           /\ (/\ AccumulatedAfterPrefix(nodes[child])
                      < termination_threshold
               /\ Len(reward_history'[Len(reward_history')].interventions)
                      < max_rollout_depth)
                  => get_legal_actions(
                         reward_history'[Len(reward_history')].interventions,
                         nodes[child]) = <<>>]_vars

\* C15's case: a rollout that did not exit early appended one suffix
\* action and stopped below its bound, no legal action being left for the
\* history with that action
C15_Witness ==
    /\ pc = "backpropagate"
    /\ AccumulatedAfterPrefix(nodes[child]) < termination_threshold
    /\ Len(LastEntry.interventions) = Len(nodes[child].interventions) + 1
    /\ Len(LastEntry.interventions) < max_rollout_depth
    /\ get_legal_actions(nodes[child].interventions, nodes[child]) # <<>>
    /\ get_legal_actions(LastEntry.interventions, nodes[child]) = <<>>

\* the sum of the rewards of the entries history[k..]
RECURSIVE SumRewardsFrom(_, _)
SumRewardsFrom(history, k) ==
    IF k > Len(history) THEN 0
    ELSE history[k].reward + SumRewardsFrom(history, k + 1)

\* the log and the root agree: one entry per visit of the root and the
\* rewards of the entries as total_reward, the last entry being still to
\* backpropagate between rollout and backpropagate
LogMatchesRoot ==
    nodes # <<>> =>
        IF pc = "backpropagate"
        THEN /\ Len(reward_history) = nodes[Root].visits + 1
             /\ SumRewardsFrom(reward_history, 1)
                    = nodes[Root].total_reward + reward
             /\ LastEntry.reward = reward
        ELSE /\ Len(reward_history) = nodes[Root].visits
             /\ SumRewardsFrom(reward_history, 1) = nodes[Root].total_reward

\* C16: every rollout appends exactly one (interventions, reward) entry to
\* the history log, on the early-exit path and on the full path alike, and
\* the logged reward is the value returned and backpropagated; nothing
\* else writes the log; hence on a fresh engine the log length equals the
\* root's visits after every backpropagation and the root's total_reward
\* equals the sum of the logged rewards.
C16_OneEntryPerRollout ==
    [][/\ pc = "rollout" =>
              /\ Len(reward_history') = Len(reward_history) + 1
              /\ SubSeq(reward_history', 1, Len(reward_history))
                     = reward_history
              /\ reward_history'[Len(reward_history')].reward = reward'
       /\ pc # "rollout" => reward_history' = reward_history
       /\ pc = "backpropagate" =>
              /\ nodes'[child].total_reward
                     = nodes[child].total_reward + LastEntry.reward
              /\ nodes'[Root].total_reward
                     = nodes[Root].total_reward + LastEntry.reward
       /\ LogMatchesRoot']_vars

\* C16's case: a rollout that exited early has been backpropagated after
\* a rollout that ran to its end
C16_Witness ==
    /\ pc = "check"
    /\ Len(reward_history) >= 2
    /\ AccumulatedAfterPrefix(nodes[child]) >= termination_threshold
    /\ LastEntry.reward = reward
    /\ Len(reward_history) = nodes[Root].visits

\* the step is a call of state_mgr.apply_shift
ShiftStep ==
    unit_calls' = unit_calls + 1 /\ returned'.op = "apply_shift"

\* the step is a call of state_mgr.get_relationships
QueryStep ==
    unit_calls' = unit_calls + 1 /\ returned'.op = "get_relationships"

\* pos moved by m: -m in x for left, +m in x for right, +m in y for
\* forward, -m in y for back
Moved(pos, direction, m) ==
    CASE direction = sLeft    -> <<pos[1] - m, pos[2], pos[3]>>
      [] direction = sRight   -> <<pos[1] + m, pos[2], pos[3]>>
      [] direction = sForward -> <<pos[1], pos[2] + m, pos[3]>>
      [] direction = sBack    -> <<pos[1], pos[2] - m, pos[3]>>

\* C17: a successful apply_shift(obj, dir, m) changes only obj's position,
\* by -m in x for left, +m in x for right, +m in y for forward, -m in y for
\* back; obj's other coordinates, the positions of all other objects, the
\* declared relationships and the initial-position copy are unchanged, and
\* obj is added to the intervened-object set.
C17_ShiftMovesOneObject ==
    [][(ShiftStep /\ returned'.value) =>
           /\ returned'.obj \in DOMAIN state_mgr.objects
           /\ DOMAIN state_mgr'.objects = DOMAIN state_mgr.objects
           /\ state_mgr'.objects[returned'.obj] =
                  Moved(state_mgr.objects[returned'.obj],
                        returned'.direction, returned'.magnitude)
           /\ \A other \in DOMAIN state_mgr.objects \ {returned'.obj} :
                  state_mgr'.objects[other] = state_mgr.objects[other]
           /\ state_mgr'.relationships = state_mgr.relationships
           /\ state_mgr'.initial_objects = state_mgr.initial_objects
           /\ state_mgr'.alignment_threshold = state_mgr.alignment_threshold
           /\ state_mgr'.intervened_objects =
                  state_mgr.intervened_objects \cup {returned'.obj}]_vars

\* C17's case: block 0 was shifted back after block 1 was shifted, and
\* stands away from its initial position in y only
C17_Witness ==
    /\ returned.op = "apply_shift"
    /\ returned.value
    /\ returned.obj = o0
    /\ returned.direction = sBack
    /\ state_mgr.intervened_objects = {o0, o1}
    /\ state_mgr.objects[o1] # state_mgr.initial_objects[o1]
    /\ state_mgr.objects[o0][1] = state_mgr.initial_objects[o0][1]
    /\ state_mgr.objects[o0][2] < state_mgr.initial_objects[o0][2]
    /\ state_mgr.objects[o0][3] = state_mgr.initial_objects[o0][3]

\* C18: apply_shift on an object absent from the state, or with a
\* direction outside left, right, forward and back, returns false and
\* changes neither a position nor the intervened-object set, nor anything
\* else of the state manager.
C18_FailedShiftChangesNothing ==
    [][(ShiftStep
            /\ (\/ returned'.obj \notin DOMAIN state_mgr.objects
                \/ returned'.direction
                       \notin {sLeft, sRight, sForward, sBack}))
           => /\ returned'.value = FALSE
              /\ state_mgr'.objects = state_mgr.objects
              /\ state_mgr'.intervened_objects
                     = state_mgr.intervened_objects
              /\ state_mgr' = state_mgr]_vars

\* C18's case: after a shift of block 1, a shift of block 0 in an unknown
\* direction has failed
C18_Witness ==
    /\ returned.op = "apply_shift"
    /\ returned.value = FALSE
    /\ returned.obj = o0
    /\ returned.direction = sUp
    /\ state_mgr.intervened_objects = {o1}
    /\ state_mgr.objects[o0] = state_mgr.initial_objects[o0]

\* C19: the declared relationship set never grows or shrinks after
\* construction under any sequence of shifts, relationship queries,
\* snapshots and resets; the current relationships are always a subset of
\* the declared set; a relationship query changes nothing, and two
\* queries with no call in between return identical sets.
C19_DeclaredRelationshipsAreFixed ==
    [][/\ state_mgr'.relationships = state_mgr.relationships
       /\ pc' = "state_manager" =>
              state_mgr'.relationships = UnitInitialState.relationships
       /\ get_relationships(state_mgr') \subseteq state_mgr'.relationships
       /\ QueryStep =>
              /\ state_mgr' = state_mgr
              /\ returned'.value = get_relationships(state_mgr')
              /\ returned'.value \subseteq state_mgr'.relationships
       /\ (QueryStep /\ returned.op = "get_relationships") =>
              returned'.value = returned.value]_vars

\* C19's case: after a shift, two queries in a row returned a set that is
\* smaller than the declared one
C19_Witness ==
    /\ returned.op = "get_relationships"
    /\ returned.repeated
    /\ returned.value # state_mgr.relationships
    /\ state_mgr.intervened_objects # {}
    /\ state_mgr.relationships = UnitInitialState.relationships

\* C20: a declared predicate of the form On(U,L) whose U and L both exist
\* in the state is in the current relationships iff |Ux-Lx| < threshold and
\* |Uy-Ly| < threshold, strictly and whatever z; every other declared
\* predicate, one that does not start with On(, does not split into
\* exactly two arguments or names a missing object, is always in the
\* current relationships.
C20_RelationshipDerivationRule ==
    pc = "state_manager" =>
        \A p \in UnitPredicates :
            p.text \in get_relationships(state_mgr)
                <=> IF /\ p.on
                       /\ p.upper \in DOMAIN state_mgr.objects
                       /\ p.lower \in DOMAIN state_mgr.objects
                    THEN /\ Abs(state_mgr.objects[p.upper][1]
                                    - state_mgr.objects[p.lower][1])
                                < state_mgr.alignment_threshold
                         /\ Abs(state_mgr.objects[p.upper][2]
                                    - state_mgr.objects[p.lower][2])
                                < state_mgr.alignment_threshold
                    ELSE TRUE

\* C20's case: a query found block 1 exactly one threshold away from block
\* 0 in x, so that On(1,0) does not hold, and block 2 within the threshold
\* in x and y but not in z, so that On(2,0) holds
C20_Witness ==
    /\ returned.op = "get_relationships"
    /\ Abs(state_mgr.objects[o1][1] - state_mgr.objects[o0][1])
           = state_mgr.alignment_threshold
    /\ On10 \notin returned.value
    /\ Abs(state_mgr.objects[o2][3] - state_mgr.objects[o0][3])
           >= state_mgr.alignment_threshold
    /\ On20 \in returned.value
    /\ {On90, On1, On102, Near10} \subseteq returned.value

\* the step is a call of state_mgr.reset_to_initial
ResetStep ==
    unit_calls' = unit_calls + 1 /\ returned'.op = "reset_to_initial"

\* C21: reset_to_initial after any sequence of shifts restores every
\* object's position to the value captured at construction and empties the
\* intervened-object set, so that the current relationships after the reset
\* are those right after construction; the declared relationship set, the
\* alignment threshold and the initial-position copy are not touched.
C21_ResetRestoresConstruction ==
    [][ResetStep =>
           /\ state_mgr'.objects = UnitInitialState.objects
           /\ state_mgr'.intervened_objects = {}
           /\ get_relationships(state_mgr')
                  = get_relationships(
                        StateManager(UnitInitialState,
                                     state_mgr.alignment_threshold))
           /\ state_mgr'.relationships = state_mgr.relationships
           /\ state_mgr'.alignment_threshold = state_mgr.alignment_threshold
           /\ state_mgr'.initial_objects = state_mgr.initial_objects]_vars

\* C21's case: a reset was made after two shifts, when an object stood
\* away from its initial position, and On(1,0) is again not among the
\* current relationships under the threshold of 5 mm
C21_Witness ==
    /\ returned.op = "reset_to_initial"
    /\ returned.moved
    /\ unit_calls = 3
    /\ state_mgr.alignment_threshold = RolloutAlignmentThreshold
    /\ state_mgr.objects = state_mgr.initial_objects
    /\ state_mgr.intervened_objects = {}
    /\ On10 \notin get_relationships(state_mgr)

\* the step is a call of applier.apply
ApplyStep == unit_calls' = unit_calls + 1 /\ returned'.op = "apply"

\* what the action string of a call reads as
DescriptorOf(text) == CHOOSE d \in UnitDescriptors : d.text = text

\* exactly two comma-separated fields, a direction and a number
WellFormed(d) == d.fields = 2 /\ d.direction /\ d.number

\* C22: apply(obj, descriptor) returns (true, shift_reward) iff the
\* descriptor has exactly two comma-separated fields, the first, trimmed,
\* is left, right, forward or back, the second is a number, and obj is in
\* the state; in every other case it returns (false, 0) and leaves the
\* positions and the intervened-object set as they were.
C22_ApplySucceedsIffWellFormedShift ==
    [][ApplyStep =>
           IF /\ WellFormed(DescriptorOf(returned'.action))
              /\ returned'.obj \in DOMAIN state_mgr.objects
           THEN returned'.value = <<TRUE, applier.shift_reward>>
           ELSE /\ returned'.value = <<FALSE, 0>>
                /\ state_mgr'.objects = state_mgr.objects
                /\ state_mgr'.intervened_objects
                       = state_mgr.intervened_objects]_vars

\* C22's case: ' right , 0.003 ' on block 1 has returned (true, 0.25) and
\* moved the block by 3 mm, after an apply that failed
C22_Witness ==
    /\ returned.op = "apply"
    /\ returned.action = aSpacedRight
    /\ returned.obj = o1
    /\ returned.value = <<TRUE, AlignmentBonus>>
    /\ unit_calls = 2
    /\ state_mgr.objects[o1] = <<11, 0, 0>>
    /\ state_mgr.intervened_objects = {o1}

\* a comma and a direction token: the shift pattern
ShiftLike(d) == d.comma /\ d.token

\* C23: apply tests the shift pattern first, then swap (the object is
\* "Swap" and the descriptor holds a comma), then pick/place, then
\* unknown; a descriptor that is shift-like and malformed is a failed shift
\* and never goes to the swap or pick/place handler, also when the object
\* is "Swap" or the descriptor holds pick or place.
C23_DispatchPrecedence ==
    [][ApplyStep =>
           /\ returned'.handler =
                  IF ShiftLike(DescriptorOf(returned'.action)) THEN "shift"
                  ELSE IF returned'.obj = sSwap
                          /\ DescriptorOf(returned'.action).comma
                  THEN "swap"
                  ELSE IF DescriptorOf(returned'.action).pick
                  THEN "pick_place"
                  ELSE "unknown"
           /\ (/\ ShiftLike(DescriptorOf(returned'.action))
               /\ ~WellFormed(DescriptorOf(returned'.action)))
                  => /\ returned'.handler = "shift"
                     /\ returned'.value = <<FALSE, 0>>]_vars

\* C23's case: 'pick,left' on the object "Swap" was handled as a shift
\* that failed
C23_Witness ==
    /\ returned.op = "apply"
    /\ returned.obj = sSwap
    /\ returned.action = aPickLeft
    /\ returned.handler = "shift"
    /\ returned.value = <<FALSE, 0>>

\* C24: the value apply returns for a swap-shaped descriptor or for a
\* pick/place descriptor differs from the value it returns for a malformed
\* descriptor and from the value it returns for an unrecognized action
\* kind.
C24_UnsupportedKindsAreDistinct ==
    (/\ pc = "applier"
     /\ returned.op = "apply"
     /\ returned.handler \in {"swap", "pick_place"})
        => \A obj \in ApplierObjects, d \in UnitDescriptors :
               (\/ ShiftLike(d) /\ ~WellFormed(d)
                \/ apply(state_mgr, applier.shift_reward, obj, d.text).handler
                       = "unknown")
                   => ApplyResult(apply(state_mgr, applier.shift_reward,
                                        obj, d.text))
                          # returned.value

\* the step is a call of shaper.step_reward
StepRewardStep == unit_calls' = unit_calls + 1 /\ returned'.op = "step_reward"

\* the step is a call of shaper.final_reward
FinalRewardStep ==
    unit_calls' = unit_calls + 1 /\ returned'.op = "final_reward"

\* C25: step_reward(prev, curr, descriptor) returns shift_bonus if the
\* descriptor holds one of the direction tokens left, right, forward and
\* back, and 0 otherwise, whatever the two relationship sets are; the
\* shaper is not changed.
C25_StepRewardIsShiftBonusOnToken ==
    [][StepRewardStep =>
           /\ returned'.value =
                  IF DescriptorOf(returned'.action).token
                  THEN shaper.shift_bonus
                  ELSE 0
           /\ shaper' = shaper]_vars

\* C25's case: 'pick,left', which holds the token left, earned the bonus
\* of 0.25 although two relationships were lost in the step
C25_Witness ==
    /\ returned.op = "step_reward"
    /\ returned.action = aPickLeft
    /\ returned.prev_rels = {On10, On20}
    /\ returned.curr_rels = {}
    /\ returned.value = AlignmentBonus
    /\ shaper.shift_bonus = AlignmentBonus

\* C26: final_reward(final_rels, interventions) is
\* |final_rels /\ goal| / |goal| - depth_penalty * len(interventions) for
\* a goal that is not empty and 1.0 - depth_penalty * len(interventions)
\* for the empty goal; it is not clamped, and the shaper is not changed.
\* The equation is multiplied by |goal|.
C26_FinalRewardFormula ==
    [][FinalRewardStep =>
           /\ IF shaper.goal = {}
              THEN returned'.value =
                       One - shaper.depth_penalty
                                 * Len(returned'.interventions)
              ELSE returned'.value * Cardinality(shaper.goal) =
                       One * Cardinality(returned'.final_rels \cap shaper.goal)
                           - shaper.depth_penalty
                                 * Len(returned'.interventions)
                                 * Cardinality(shaper.goal)
           /\ shaper' = shaper]_vars

\* C26's case: a goal of two predicates of which none is among the final
\* relationships, which are not empty, and three interventions: the reward
\* is negative
C26_Witness ==
    /\ returned.op = "final_reward"
    /\ shaper.goal = {On10, On20}
    /\ returned.final_rels = {Near10}
    /\ Len(returned.interventions) = 3
    /\ returned.value < 0

\* two final_reward calls in a row with the same final relationships, the
\* second with more interventions
LongerSequenceCompared ==
    /\ pc = "shaper"
    /\ returned.op = "final_reward"
    /\ returned.previous.op = "final_reward"
    /\ returned.previous.final_rels = returned.final_rels
    /\ Len(returned.interventions) > returned.previous.length

\* C27 as stated: for a fixed goal and fixed final relationships,
\* final_reward strictly decreases as the number of interventions grows,
\* by exactly depth_penalty for each intervention, for every configured
\* depth_penalty.
C27_FinalRewardStrictlyDecreases ==
    LongerSequenceCompared =>
        /\ returned.value < returned.previous.value
        /\ returned.value =
               returned.previous.value
                   - shaper.depth_penalty
                         * (Len(returned.interventions)
                                - returned.previous.length)

\* C27, amended: for a fixed goal and fixed final relationships, each
\* further intervention lowers final_reward by exactly depth_penalty; the
\* reward strictly decreases when depth_penalty is positive and stays the
\* same when depth_penalty is 0.
C27_FinalRewardSlopeIsDepthPenalty ==
    LongerSequenceCompared =>
        /\ returned.value =
               returned.previous.value
                   - shaper.depth_penalty
                         * (Len(returned.interventions)
                                - returned.previous.length)
        /\ shaper.depth_penalty > 0 =>
               returned.value < returned.previous.value
        /\ shaper.depth_penalty = 0 =>
               returned.value = returned.previous.value

\* C27's case: with depth_penalty 0.0625, the reward of one intervention
\* and then of three for the same final relationships, 0.125 lower
C27_Witness ==
    /\ LongerSequenceCompared
    /\ shaper.depth_penalty = 5
    /\ shaper.goal = {On10, On20}
    /\ returned.final_rels = {On10}
    /\ returned.previous.length = 1
    /\ Len(returned.interventions) = 3
    /\ returned.value = returned.previous.value - 10

\* the step is a call of backpropagate on a node of the tree
TreeBackpropagateStep ==
    unit_calls' = unit_calls + 1 /\ returned'.op = "backpropagate"

\* the step is a call of expand on a node of the tree that made a child
TreeExpandStep ==
    /\ unit_calls' = unit_calls + 1
    /\ returned'.op = "expand"
    /\ returned'.child # returned'.node

\* C28: after backpropagate(node, r), each node on the path from node to
\* the root has its local_violations contained in its parent's, so every
\* ancestor of node, the root included, holds at least the violations node
\* held when backpropagation started; no violation is ever removed from a
\* node, by backpropagate or by expand.
C28_ViolationsPropagateToAncestors ==
    [][/\ TreeBackpropagateStep =>
              /\ \A k \in 1..Len(nodes) :
                     (OnPathToRoot(nodes, k, returned'.node)
                          /\ nodes[k].parent # 0)
                         => nodes'[k].local_violations
                                \subseteq
                                nodes'[nodes[k].parent].local_violations
              /\ \A a \in 1..Len(nodes) :
                     OnPathToRoot(nodes, a, returned'.node)
                         => nodes[returned'.node].local_violations
                                \subseteq nodes'[a].local_violations
       /\ pc = "tree" =>
              \A k \in 1..Len(nodes) :
                  nodes[k].local_violations
                      \subseteq nodes'[k].local_violations]_vars

\* C28's case: backpropagate was called on the grandchild, and the root,
\* two levels above, holds the grandchild's violation together with one
\* of its own
C28_Witness ==
    /\ pc = "tree"
    /\ returned.op = "backpropagate"
    /\ returned.node = 3
    /\ nodes[3].parent = 2
    /\ nodes[2].parent = Root
    /\ nodes[3].local_violations = {<<o2, aForward>>}
    /\ nodes[2].local_violations = {<<o2, aForward>>}
    /\ nodes[Root].local_violations
           = {<<o1, aLeft>>, <<o2, aBack>>, <<o2, aForward>>}
    /\ nodes[Root].visits = 1

\* C29: once an intervention is in a node's local_violations, the next
\* expand of that node does not create a child for it, also when the
\* node's untried_actions had been populated before the violation came.
C29_ExpandSkipsViolations ==
    [][TreeExpandStep =>
           nodes'[returned'.child].interventions[
               Len(nodes'[returned'.child].interventions)]
                   \notin nodes[returned'.node].local_violations]_vars

\* C30: an engine constructed with a negative max_rollout_depth fails at
\* once when the search or a rollout runs: no rollout is recorded and
\* search_resolution returns nothing.
C30_NegativeDepthFailsLoudly ==
    max_rollout_depth < 0 =>
        /\ reward_history = <<>>
        /\ result = NoResult

\* the candidates get_legal_actions keeps for the node n
LegalOf(n) == get_legal_actions(nodes[n].interventions, nodes[n])

\* the candidates it would keep if the node had no violations
LegalWithoutViolations(n) ==
    get_legal_actions(nodes[n].interventions,
                      [nodes[n] EXCEPT !.local_violations = {}])

\* C35: in every reachable state of a search the local_violations set of
\* every node is empty, so get_legal_actions excludes no candidate for a
\* violation, and backpropagate's merge leaves every set as it was.
C35_LocalViolationsStayEmpty ==
    [][ /\ \A n \in 1..Len(nodes') :
               /\ nodes'[n].local_violations = {}
        /\ \A n \in 1..Len(nodes) :
               /\ LegalOf(n) = LegalWithoutViolations(n)
        /\ pc = "backpropagate" =>
               /\ Len(nodes') = Len(nodes)
               /\ \A n \in 1..Len(nodes) :
                      nodes'[n].local_violations = nodes[n].local_violations
      ]_vars

\* C35's case: a node two levels below the root was backpropagated, so the
\* merge ran into its parent and into the root
C35_Witness ==
    /\ pc = "check"
    /\ Len(nodes[child].interventions) >= 2
    /\ nodes[child].visits >= 1
    /\ get_legal_actions(nodes[child].interventions, nodes[child]) # <<>>

\* C36: whenever Select runs, every node below the root has at least one
\* visit and no more visits than its parent, so no node has an unvisited
\* child for _best_child to meet, and the visits of the root are the sum of
\* the visits of its children.
C36_EveryNodeVisitedAtSelect ==
    (pc = "select") =>
        /\ \A n \in 2..Len(nodes) :
               /\ nodes[n].visits >= 1
               /\ nodes[n].visits <= nodes[nodes[n].parent].visits
        /\ \A n \in 1..Len(nodes) :
               \A k \in 1..Len(nodes[n].children) :
                   ScoreOf(nodes[n], nodes[nodes[n].children[k]]).inf = FALSE
        /\ nodes[Root].visits = SumChildVisits

\* C36's case: Select is about to descend through a root with two children
\* into a tree that has a node two levels below the root
C36_Witness ==
    /\ pc = "select"
    /\ i < iterations
    /\ Len(nodes[Root].children) >= 2
    /\ ~Truthy(nodes[Root].untried_actions)
    /\ \E n \in 2..Len(nodes) :
           /\ Depth(n) = 2
           /\ nodes[n].visits < nodes[nodes[n].parent].visits

\* C37: when search_resolution ends by budget exhaustion and the root has
\* children, the returned sequence is that of a direct child of the root:
\* exactly one intervention, whatever the depth of the tree and the
\* averages of the nodes below the root's children.
C37_BudgetResultHasLengthOne ==
    (Returned /\ ~solution_found /\ nodes[Root].children # <<>>) =>
        /\ result.iterations = iterations
        /\ Len(result.interventions) = 1
        /\ \E k \in 1..Len(nodes[Root].children) :
               result.interventions
                   = nodes[nodes[Root].children[k]].interventions

\* C37's case: the budget is exhausted while a node two levels below the
\* root has a better average than the child of the root that is returned
C37_Witness ==
    /\ Returned
    /\ ~solution_found
    /\ Len(result.interventions) = 1
    /\ \E n, c \in 2..Len(nodes) :
           /\ Depth(n) = 2
           /\ nodes[n].visits > 0
           /\ nodes[c].visits > 0
           /\ nodes[c].interventions = result.interventions
           /\ nodes[n].total_reward * nodes[c].visits
                  > nodes[c].total_reward * nodes[n].visits

\* C38: when search_resolution ends by early success, the last entry of
\* reward_history has a reward of at least termination_threshold and the
\* returned sequence is a prefix of that entry's interventions; the prefix
\* is proper when the threshold was reached through the random suffix.
C38_EarlyResultIsPrefixOfLastEntry ==
    (Returned /\ solution_found) =>
        /\ reward_history # <<>>
        /\ LastEntry.reward >= termination_threshold
        /\ Len(result.interventions) <= Len(LastEntry.interventions)
        /\ SubSeq(LastEntry.interventions, 1, Len(result.interventions))
               = result.interventions

\* C38's case: an early success whose rollout went on with a suffix, so
\* the returned sequence is shorter than the logged one
C38_Witness ==
    /\ Returned
    /\ solution_found
    /\ reward_history # <<>>
    /\ result.interventions # <<>>
    /\ Len(result.interventions) < Len(LastEntry.interventions)

\* the node n is below the root, its untried list is filled and empty and
\* it has no children
DeadEnd(n) ==
    /\ n # Root
    /\ nodes[n].children = <<>>
    /\ nodes[n].untried_actions.init
    /\ nodes[n].untried_actions.list = <<>>

\* C34: when Select returns a node below the root that has an empty untried
\* list and no children, the iteration is not skipped: Expand returns that
\* same node and creates none, the node is rolled out again and the reward
\* backpropagated, so its visits and those of its ancestors grow by one
\* while the nodes of the tree stay the same.
C34_DeadEndIsRolledOutAgain ==
    [][/\ (pc = "expand" /\ DeadEnd(node)) =>
              /\ pc' = "rollout"
              /\ i' = i
              /\ child' = node
              /\ nodes' = nodes
              /\ nodes[node].visits >= 1
       /\ (pc = "rollout" /\ child = node /\ DeadEnd(node)) =>
              /\ pc' = "backpropagate"
              /\ Len(reward_history') = Len(reward_history) + 1
              /\ nodes' = nodes
       /\ (pc = "backpropagate" /\ child = node /\ DeadEnd(node)) =>
              /\ pc' = "check"
              /\ Len(nodes') = Len(nodes)
              /\ \A n \in 1..Len(nodes) :
                     /\ nodes'[n].interventions = nodes[n].interventions
                     /\ nodes'[n].children = nodes[n].children
                     /\ nodes'[n].parent = nodes[n].parent
                     /\ nodes'[n].visits =
                            IF OnPathToRoot(nodes, n, node)
                            THEN nodes[n].visits + 1 ELSE nodes[n].visits
                     /\ nodes'[n].total_reward =
                            IF OnPathToRoot(nodes, n, node)
                            THEN nodes[n].total_reward + reward
                            ELSE nodes[n].total_reward
      ]_vars

\* C34's case: a node two levels below the root with nothing left to try
\* was selected again, rolled out and backpropagated
C34_Witness ==
    /\ pc = "check"
    /\ child = node
    /\ DeadEnd(node)
    /\ Depth(node) = 2
    /\ nodes[node].visits >= 2
    /\ nodes[nodes[node].parent].visits > nodes[node].visits

\* the tracked objects that the state holds together with the reference
\* block 0 and that stand within the rollout's threshold of it in x and y
AlignedTracked(sm) ==
    {k \in 1..Len(TrackedObjects) :
        /\ TrackedObjects[k] \in DOMAIN sm.objects
        /\ o0 \in DOMAIN sm.objects
        /\ Abs(sm.objects[TrackedObjects[k]][1] - sm.objects[o0][1])
               < RolloutAlignmentThreshold
        /\ Abs(sm.objects[TrackedObjects[k]][2] - sm.objects[o0][2])
               < RolloutAlignmentThreshold}

\* 0.25 for each of them
BonusAsStated(sm) == AlignmentBonus * Cardinality(AlignedTracked(sm))

\* the bonus of the rollout of nd, whose prefix replay ended in st1
BonusHolds(nd, st1) ==
    /\ DebugBonusFrom(st1.sm, 1) = BonusAsStated(st1.sm)
    /\ PlainBonusFrom(st1.sm, 1) = BonusAsStated(st1.sm)
    /\ misalignment_bonus(st1.sm, nd.interventions) \in 0..One
    /\ rollout(nd) =
           AfterPrefix(nd, st1,
                       st1.shaped_reward
                       + final_reward(reward_shaper,
                                      get_relationships(st1.sm),
                                      nd.interventions)
                       + BonusAsStated(st1.sm))

\* C33: once the prefix is replayed, a rollout adds 0.25 for each object
\* of the tracked set {1,2,3,4} that is aligned with the reference block 0
\* under the rollout's threshold; a tracked object or a reference that the
\* state does not hold earns no bonus; the branch for nodes of at most one
\* intervention and the branch for longer nodes compute the same bonus for
\* the same state; and the bonus lies between 0 and 1.
C33_AlignmentBonus ==
    (pc \in {"rollout", "backpropagate"}) =>
        BonusHolds(nodes[child], PrefixReplayed(nodes[child]))

\* C33's case: a node of two interventions was rolled out from a state in
\* which blocks 1 and 2 are aligned with block 0 and blocks 3 and 4 are
\* missing, and the reward holds the two bonuses
C33_Witness ==
    /\ pc = "backpropagate"
    /\ Len(nodes[child].interventions) = 2
    /\ BonusAsStated(PrefixReplayed(nodes[child]).sm) = 2 * AlignmentBonus
    /\ reward >= 2 * AlignmentBonus

\* the child c of the parent nodes[Root] scores +infinity: it is unvisited
\* or the parent is
ScoresInfinity(c) == nodes[c].visits = 0 \/ nodes[Root].visits = 0

\* the score of child j is at most that of child k (the engine's
\* exploration constant is 0.0, so a finite score is the average)
ScoreAtMost(j, k) ==
    IF ScoresInfinity(k) THEN TRUE
    ELSE IF ScoresInfinity(j) THEN FALSE
    ELSE nodes[j].total_reward * nodes[k].visits
             <= nodes[k].total_reward * nodes[j].visits

\* C32: _best_child returns the first child in child order that attains
\* the maximal score: no child scores higher and every child before it
\* scores strictly lower; among several children scoring +infinity it is
\* the first of them, a child scoring +infinity when it is unvisited or
\* when the parent has no visits.
C32_FirstChildOfMaximalScore ==
    (pc = "best_child_done") =>
        /\ node \in 2..Len(nodes)
        /\ \A j \in 2..Len(nodes) : ScoreAtMost(j, node)
        /\ \A j \in 2..(node - 1) : ~ScoreAtMost(node, j)
        /\ (\E j \in 2..Len(nodes) : ScoresInfinity(j)) =>
               /\ ScoresInfinity(node)
               /\ \A j \in 2..(node - 1) : ~ScoresInfinity(j)

\* C32's case: under a visited parent the second and the third child have
\* the same, maximal, average with different visit counts, the first child
\* has a lower one, and the second child is returned
C32_Witness ==
    /\ pc = "best_child_done"
    /\ Len(nodes) = 4
    /\ nodes[Root].visits > 0
    /\ \A c \in 2..4 : nodes[c].visits > 0
    /\ nodes[3].visits # nodes[4].visits
    /\ ScoreAtMost(3, 4)
    /\ ScoreAtMost(4, 3)
    /\ ~ScoreAtMost(3, 2)
    /\ node = 3

\* the rollout state before step k of the sequence seq
BeforeStep(seq, k) ==
    ReplayFrom([sm |-> StateManager(initial_state, RolloutAlignmentThreshold),
                prev_rels |-> initial_state.relationships,
                shaped_reward |-> 0],
               SubSeq(seq, 1, k - 1), 1)

\* the descriptor holds one of 'left', 'right', 'forward', 'back'
HasDirectionToken(action) == \E d \in DirectionTokens : Contains(action, d)

\* what the step (obj, action) adds to shaped_reward from the state st
StepGain(st, obj, action) ==
    RolloutStep(st, obj, action).shaped_reward - st.shaped_reward

\* the step adds shift_bonus for a direction token and nothing else, and a
\* failed application contributes 0 of its own
StepAsStated(st, obj, action, r) ==
    /\ StepGain(st, obj, action)
           = IF HasDirectionToken(action) THEN scenario.shift_bonus ELSE 0
    /\ ~r.success => r.reward = 0 /\ r.sm = st.sm

\* step k of seq is a descriptor with a direction token whose application
\* fails
FailedTokenStep(seq, k) ==
    /\ HasDirectionToken(seq[k][2])
    /\ ~apply(BeforeStep(seq, k).sm, RolloutShiftReward,
              seq[k][1], seq[k][2]).success

\* C40: in a rollout the step reward of a step is decided by the action
\* descriptor alone and is added whether or not the applier reported
\* success: a descriptor with a direction token earns shift_bonus also when
\* its application fails, for an unknown object or a magnitude that is no
\* number, while the applier's own reward for that step is 0.
C40_StepRewardIgnoresSuccess ==
    (pc = "backpropagate") =>
        \A k \in 1..Len(LastEntry.interventions) :
            StepAsStated(BeforeStep(LastEntry.interventions, k),
                         LastEntry.interventions[k][1],
                         LastEntry.interventions[k][2],
                         apply(BeforeStep(LastEntry.interventions, k).sm,
                               RolloutShiftReward,
                               LastEntry.interventions[k][1],
                               LastEntry.interventions[k][2]))

\* C40's case: with a shift_bonus of 0.25, a rollout held 'left,abc' on
\* block 1 and 'back,0.01' on the missing block 2; both applications
\* failed and the reward holds both bonuses
C40_Witness ==
    /\ pc = "backpropagate"
    /\ scenario.shift_bonus > 0
    /\ \E j, k \in 1..Len(LastEntry.interventions) :
           /\ LastEntry.interventions[j] = <<o1, aLeftAbc>>
           /\ LastEntry.interventions[k] = <<o2, aBack>>
           /\ o2 \notin DOMAIN initial_state.objects
           /\ FailedTokenStep(LastEntry.interventions, j)
           /\ FailedTokenStep(LastEntry.interventions, k)
    /\ reward >= 2 * scenario.shift_bonus

\* the call in progress is the first one made on the engine
FirstCall == unit_calls = 0

\* the call in progress is a later one, made after the flag was set
CalledAfterSuccess == unit_calls >= 1 /\ returned.solution_found

\* the flag is false during the first call until its early success
FlagFalseUntilSuccess ==
    FirstCall =>
        /\ pc # "done" => ~solution_found
        /\ (pc = "done" /\ solution_found) =>
               /\ reward >= termination_threshold
               /\ result = [interventions |-> nodes[child].interventions,
                            iterations |-> i]

\* the call in progress has run no rollout and no backpropagation, and if
\* it has returned, it returned at iteration 0 the interventions of the
\* last entry the earlier search logged
ReturnsLastEntryAtOnce ==
    /\ i = 0
    /\ pc \in {"select", "expand", "done"}
    /\ reward_history = returned.reward_history
    /\ \A n \in 1..Len(nodes) : nodes[n].visits = 0
    /\ pc = "done" =>
           result =
               [interventions |->
                    returned.reward_history[Len(returned.reward_history)]
                        .interventions,
                iterations |-> 0]

\* C39 as stated: solution_found is false throughout a search on a fresh
\* engine until the return by early success, and it is never cleared: a
\* later search_resolution call on the same engine with a non-empty
\* intervention space returns at iteration 0 without any rollout or
\* backpropagation, returning the interventions of the last entry of the
\* history log of the earlier search.
C39_LaterCallReturnsLastEntry ==
    [][/\ FlagFalseUntilSuccess'
       /\ solution_found => solution_found'
       /\ (CalledAfterSuccess' /\ Candidates(intervention_space) # <<>>) =>
              ReturnsLastEntryAtOnce']_vars

\* C39, amended: solution_found is false throughout a search on a fresh
\* engine until the return by early success, and it is never cleared: a
\* later search_resolution call on the same engine with a non-empty
\* intervention space and a budget of at least one iteration returns at
\* iteration 0 without any rollout or backpropagation, returning the
\* interventions of the last entry of the history log of the earlier
\* search; a later call with a budget of 0 does not enter the loop and
\* returns ([], 0).
C39_LaterCallWithBudgetReturnsLastEntry ==
    [][/\ FlagFalseUntilSuccess'
       /\ solution_found => solution_found'
       /\ (CalledAfterSuccess' /\ Candidates(intervention_space) # <<>>
               /\ iterations' >= 1) =>
              ReturnsLastEntryAtOnce'
       /\ (CalledAfterSuccess' /\ iterations' = 0 /\ pc' = "done") =>
              result' = [interventions |-> <<>>, iterations |-> 0]]_vars

\* C39's case: after an early success the engine was called again with a
\* budget of two iterations; the call returned at iteration 0 the logged
\* sequence of the earlier search, which is longer than what that search
\* returned
C39_Witness ==
    /\ CalledAfterSuccess
    /\ iterations = 2
    /\ pc = "done"
    /\ result.iterations = 0
    /\ Len(nodes) = 2
    /\ Len(result.interventions) > Len(returned.value.interventions)

\* a descent step of select from n goes to one of n's children, a node one
\* level deeper
DescentGoesDeeper(n) ==
    nodes[n].children # <<>> =>
        /\ \E k \in 1..Len(nodes[n].children) :
               best_child(nodes, n) = nodes[n].children[k]
        /\ nodes[best_child(nodes, n)].parent = n
        /\ Depth(best_child(nodes, n)) = Depth(n) + 1

\* the loop has run at most `iterations` passes, every descent step of
\* select leads to a deeper node of the tree, a rollout that is called has
\* an outcome, and the rollout just run went at most max_rollout_depth
\* steps, or the length of its prefix
SearchIsBounded ==
    (pc \notin {"init"}) =>
        /\ pc \in Phases
        /\ i <= iterations
        /\ pc = "rollout" => rollout(nodes[child]) # {}
        /\ completed <= i + 1
        /\ Len(reward_history) <= iterations
        /\ Len(nodes) <= iterations + 1
        /\ \A n \in 1..Len(nodes) : DescentGoesDeeper(n)
        /\ pc = "backpropagate" =>
               Len(LastEntry.interventions)
                   <= Max(Len(nodes[child].interventions), max_rollout_depth)

\* C31: for every iteration budget and intervention space a call of
\* search_resolution eventually returns: it runs at most `iterations`
\* passes of the loop, each descent of select moves to a strictly deeper
\* node that _best_child finds among the children, and each rollout
\* simulates a bounded suffix.
C31_SearchTerminates ==
    /\ <>(pc = "done")
    /\ []SearchIsBounded

\* C31's case: a search used up a budget of four or more iterations and
\* returned, after descents of select through two levels of the tree
C31_Witness ==
    /\ pc = "done"
    /\ iterations >= 4
    /\ result.iterations = iterations
    /\ Len(reward_history) = iterations
    /\ \E n \in 2..Len(nodes) : Depth(n) = 2 /\ nodes[n].visits >= 2

====
